---- MODULE Spec2Model ----
(***************************************************************************)
(* A model of SROrch (master_orchestrator.py): the concurrent fan-out of   *)
(* ResearchOrchestrator.run_search and the merge / score / rank pass of    *)
(* ResearchOrchestrator.deduplicate_and_score.                              *)
(*                                                                          *)
(* Python strings are sequences of one-character strings, so that lower(), *)
(* strip(), isdigit(), int(), str() and re.sub() are computed character by *)
(* character.  A Python value of varying type (str / int / float / None /  *)
(* absent key) is a record [t, s, n]: t is the type tag, s the characters  *)
(* of a str (or the str() rendering of a float), n the value of an int.    *)
(* Python floats of the scoring configuration are decimal fixed-point      *)
(* numbers counted in tenths (10 is 1.0, 12 is 1.2, 1000 is 100).          *)
(***************************************************************************)
EXTENDS Integers, Sequences, FiniteSets, TLC

VARIABLES
    api_keys,            \* self.api_keys: engine -> Python value
    config,              \* self.config
    current_year,        \* datetime.now().year read by deduplicate_and_score
    pc,                  \* position of the orchestrating thread
    submitted,           \* number of engines of Engines already handled by the submit block
    tasks,               \* engine -> state of its future
    returned,            \* engine -> the list its adapter returned
    collected,           \* engines whose future as_completed has yielded
    combined_results,    \* the list handed to deduplicate_and_score
    successful_engines,  \* session_metadata['successful_engines']
    failed_engines,      \* session_metadata['failed_engines']
    total_api_calls,     \* session_metadata['total_api_calls']
    final_list,          \* the list deduplicate_and_score returned: p is the dict, key
                         \* the identity it was kept under, first the index of the
                         \* input record that created it
    alerts,              \* the high-consensus lines printed, in order
    record_keys,         \* the identity computed for each input record, in input order
    results,             \* analyze_research_gaps: the list of papers it is given
    query,               \* analyze_research_gaps: its query
    min_confidence,      \* analyze_research_gaps: its threshold, in hundredths
    mined,               \* papers of papers_with_text the loop of line 440 has handled
    found_gaps,          \* found_gaps
    tallies,             \* all_keywords, gap_categories, temporal_distribution, author_gaps
    report,              \* the dict analyze_research_gaps returns
    analysis,            \* the dict _calculate_confidence is given, and its result
    top_n,               \* identify_priority_gaps: its top_n
    priority_gaps,       \* identify_priority_gaps: the list it returns
    session_state,       \* st.session_state: step, is_processing and what the stages store
    stage_calls,         \* the stages execute_research_pipeline has called, in order
    authors_str,         \* format_authors_ieee: its argument
    formatted            \* format_authors_ieee: the str it returns

vars == <<api_keys, config, current_year, pc, submitted, tasks, returned, collected,
          combined_results, successful_engines, failed_engines, total_api_calls,
          final_list, alerts, record_keys,
          results, query, min_confidence, mined, found_gaps, tallies, report, analysis,
          top_n, priority_gaps, session_state, stage_calls, authors_str, formatted>>

\* the variables of analyze_research_gaps and of the analyzer
gap_vars == <<results, query, min_confidence, mined, found_gaps, tallies, report, analysis>>

\* the variables of identify_priority_gaps, of execute_research_pipeline and of
\* format_authors_ieee
app_vars == <<top_n, priority_gaps, session_state, stage_calls, authors_str, formatted>>

----------------------------------------------------------------------------
(* Bounds of the model *)

\* longest input list handed to deduplicate_and_score in SpecDedup
MaxLen == 3

\* longest list one adapter returns in Spec
MaxPerAdapter == 2

\* the longest list of papers analyze_research_gaps is called with
MaxPapers == 2

\* the greatest sentence_length _calculate_confidence is called with
MaxSentenceLength == 9

----------------------------------------------------------------------------
(* Python str primitives *)

UpperChars == <<"A","B","C","D","E","F","G","H","I","J","K","L","M",
                "N","O","P","Q","R","S","T","U","V","W","X","Y","Z">>

LowerChars == <<"a","b","c","d","e","f","g","h","i","j","k","l","m",
                "n","o","p","q","r","s","t","u","v","w","x","y","z">>

DigitChars == <<"0","1","2","3","4","5","6","7","8","9">>

Range(f) == {f[i] : i \in DOMAIN f}

UpperSet == Range(UpperChars)
LowerSet == Range(LowerChars)
DigitSet == Range(DigitChars)

\* the superscript characters U+2070, U+00B2 and U+00B3, each one character of a
\* Python str: str.isdigit() holds for them, int() rejects them with ValueError
SuperscriptSet == {"^0", "^2", "^3"}

LowerOf == [c \in UpperSet |-> LowerChars[CHOOSE i \in DOMAIN UpperChars : UpperChars[i] = c]]

DigitValueOf == [c \in DigitSet |-> (CHOOSE i \in DOMAIN DigitChars : DigitChars[i] = c) - 1]

IsSpaceChar(c) == c \in {" ", "\t", "\n"}
\* the class [a-zA-Z0-9] of the regular expression of line 103
IsAlnumChar(c) == c \in UpperSet \cup LowerSet \cup DigitSet

\* str.lower()
str_lower(s) == [i \in 1..Len(s) |-> IF s[i] \in UpperSet THEN LowerOf[s[i]] ELSE s[i]]

RECURSIVE FirstKept(_, _)
\* the first index from i on that holds no whitespace (Len(s) + 1: none)
FirstKept(s, i) ==
    IF i > Len(s) THEN i
    ELSE IF IsSpaceChar(s[i]) THEN FirstKept(s, i + 1) ELSE i

RECURSIVE LastKept(_, _)
\* the last index up to i that holds no whitespace (0: none)
LastKept(s, i) ==
    IF i = 0 THEN 0
    ELSE IF IsSpaceChar(s[i]) THEN LastKept(s, i - 1) ELSE i

\* str.strip()
str_strip(s) == SubSeq(s, FirstKept(s, 1), LastKept(s, Len(s)))

\* str.isdigit()
str_isdigit(s) == Len(s) > 0 /\ \A i \in 1..Len(s) : s[i] \in DigitSet \cup SuperscriptSet

\* int(s) of a str s that passed isdigit() raises ValueError
int_raises(s) == \E i \in 1..Len(s) : s[i] \in SuperscriptSet

RECURSIVE ParseDigits(_)
\* int(s) for a digit-only s
ParseDigits(s) ==
    IF Len(s) = 0 THEN 0
    ELSE 10 * ParseDigits(SubSeq(s, 1, Len(s) - 1)) + DigitValueOf[s[Len(s)]]

RECURSIVE NatToStr(_)
NatToStr(n) ==
    IF n < 10 THEN <<DigitChars[n + 1]>>
    ELSE Append(NatToStr(n \div 10), DigitChars[(n % 10) + 1])

----------------------------------------------------------------------------
(* Python values *)

PyStr(s)   == [t |-> "str",     s |-> s,    n |-> 0]
PyInt(n)   == [t |-> "int",     s |-> <<>>, n |-> n]
PyFloat(s) == [t |-> "float",   s |-> s,    n |-> 0]
PyNone     == [t |-> "none",    s |-> <<>>, n |-> 0]
PyAbsent   == [t |-> "absent",  s |-> <<>>, n |-> 0]

\* str(v)
py_str(v) ==
    CASE v.t = "str"   -> v.s
      [] v.t = "int"   -> IF v.n < 0 THEN <<"-">> \o NatToStr(-v.n) ELSE NatToStr(v.n)
      [] v.t = "float" -> v.s
      [] OTHER         -> <<"N","o","n","e">>

\* truth value of v, as `or` and `if` use it
py_truthy(v) ==
    CASE v.t = "str"   -> Len(v.s) > 0
      [] v.t = "int"   -> v.n # 0
      [] v.t = "float" -> v.s \notin {<<"0",".","0">>, <<"-","0",".","0">>}
      [] OTHER         -> FALSE

\* dict.get(key, default)
py_get(v, default) == IF v.t = "absent" THEN default ELSE v

----------------------------------------------------------------------------
(* Records and configuration *)

\* A paper dict.  source_count = 0, citations_int = 0, relevance_score = 0 and
\* recency_boosted = FALSE stand for keys the dict does not hold yet.
Paper(title, doi, citations, year) ==
    [title |-> title, doi |-> doi, citations |-> citations, year |-> year,
     source_count |-> 0, citations_int |-> 0, relevance_score |-> 0,
     recency_boosted |-> FALSE]

\* self.config as __init__ sets it, the floats in tenths
DefaultConfig ==
    [high_consensus_threshold |-> 4,
     citation_weight          |-> 10,
     source_weight            |-> 1000,
     enable_alerts            |-> TRUE,
     recency_boost            |-> TRUE,
     recency_years            |-> 5,
     recency_multiplier       |-> 12]

\* int(x) of a non-negative fixed-point number num / den
py_int_of_float(num, den) == IF num >= 0 THEN num \div den ELSE -((-num) \div den)

----------------------------------------------------------------------------
(* deduplicate_and_score *)

NA == <<"N","/","A">>

\* a statement outside any try: what it raises leaves the function
propagates_unguarded(raises) == raises

\* the bare except clauses of lines 109-110 and 139-140: nothing raised inside
\* the try leaves the function
propagates_through_except(raises) == FALSE

\* doi without .lower(): DOIs compared case-sensitively
doi_case_sensitive(paper) ==
    str_strip(py_str(IF py_truthy(paper.doi) THEN paper.doi ELSE PyStr(NA)))

doi(paper) ==
    str_strip(str_lower(py_str(IF py_truthy(paper.doi) THEN paper.doi ELSE PyStr(NA))))

informative(d) == d # <<"n","/","a">> /\ Len(d) > 5

title(paper) == str_strip(str_lower(py_get(paper.title, PyStr(<<>>)).s))

\* re.sub(r'[^a-zA-Z0-9]', '', title)
clean_title(paper) == SelectSeq(title(paper), IsAlnumChar)

\* key without the DOI: every record keyed by its title
key_by_title(paper) == clean_title(paper)

key(paper) ==
    LET d == doi(paper)
    IN IF informative(d) THEN d ELSE clean_title(paper)

\* int(cites_raw); a ValueError / TypeError ends in the except branch, cites = 0
py_int(v) ==
    CASE v.t = "str" /\ str_isdigit(v.s) /\ ~int_raises(v.s) -> ParseDigits(v.s)
      [] v.t = "int"                     -> v.n
      [] OTHER                           -> 0

\* cites without the isdigit test
cites_unchecked(paper) == py_int(py_get(paper.citations, PyInt(0)))

cites(paper) ==
    LET cites_raw == py_get(paper.citations, PyInt(0))
    IN IF str_isdigit(py_str(cites_raw)) THEN py_int(cites_raw) ELSE 0

\* line 108: int(cites_raw) raises although str(cites_raw).isdigit() holds
cites_raises(paper) ==
    LET cites_raw == py_get(paper.citations, PyInt(0))
    IN propagates_through_except(
           cites_raw.t = "str" /\ str_isdigit(cites_raw.s) /\ int_raises(cites_raw.s))

\* position of key k in the dict unique_papers (0: not in it)
dict_pos(unique_papers, k) ==
    IF \E i \in 1..Len(unique_papers) : unique_papers[i].key = k
    THEN CHOOSE i \in 1..Len(unique_papers) : unique_papers[i].key = k
    ELSE 0

\* the alert on every count at or above the threshold
alert_fires_at_or_above(cfg, source_count) ==
    cfg.enable_alerts /\ source_count >= cfg.high_consensus_threshold

\* the alert condition of lines 118-119
alert_fires(cfg, source_count) ==
    cfg.enable_alerts /\ source_count = cfg.high_consensus_threshold

\* the fold taking the count of the latest record instead of the larger one
fold_duplicate_latest(st, pos, k, paper, i) ==
    LET old == st.unique_papers[pos].p
        c   == cites(paper)
        upd == [old EXCEPT !.source_count = @ + 1, !.citations_int = c,
                           !.citations = PyInt(c)]
    IN [unique_papers |-> [st.unique_papers EXCEPT ![pos].p = upd],
        keys   |-> Append(st.keys, k),
        alerts |-> IF config.enable_alerts /\ upd.source_count = config.high_consensus_threshold
                   THEN Append(st.alerts, [key |-> k, at |-> i])
                   ELSE st.alerts]

\* the fold leaving the duplicate uncounted
fold_duplicate_uncounted(st, pos, k, paper, i) ==
    LET old == st.unique_papers[pos].p
        c   == cites(paper)
        upd == IF c > old.citations_int
               THEN [old EXCEPT !.citations_int = c, !.citations = PyInt(c)]
               ELSE old
    IN [unique_papers |-> [st.unique_papers EXCEPT ![pos].p = upd],
        keys   |-> Append(st.keys, k),
        alerts |-> IF alert_fires(config, upd.source_count)
                   THEN Append(st.alerts, [key |-> k, at |-> i])
                   ELSE st.alerts]

\* the fold taking the year of the latest record
fold_duplicate_year(st, pos, k, paper, i) ==
    LET old    == st.unique_papers[pos].p
        c      == cites(paper)
        bumped == [old EXCEPT !.source_count = @ + 1, !.year = paper.year]
        upd    == IF c > bumped.citations_int
                  THEN [bumped EXCEPT !.citations_int = c, !.citations = PyInt(c)]
                  ELSE bumped
    IN [unique_papers |-> [st.unique_papers EXCEPT ![pos].p = upd],
        keys   |-> Append(st.keys, k),
        alerts |-> IF alert_fires(config, upd.source_count)
                   THEN Append(st.alerts, [key |-> k, at |-> i])
                   ELSE st.alerts]

\* the branch `if key in unique_papers` (lines 113-120) for the i-th record
fold_duplicate(st, pos, k, paper, i) ==
    LET old    == st.unique_papers[pos].p
        c      == cites(paper)
        bumped == [old EXCEPT !.source_count = @ + 1]
        upd    == IF c > bumped.citations_int
                  THEN [bumped EXCEPT !.citations_int = c, !.citations = PyInt(c)]
                  ELSE bumped
    IN [unique_papers |-> [st.unique_papers EXCEPT ![pos].p = upd],
        keys   |-> Append(st.keys, k),
        alerts |-> IF alert_fires(config, upd.source_count)
                   THEN Append(st.alerts, [key |-> k, at |-> i])
                   ELSE st.alerts]

\* the else branch leaving the first record of an identity uncounted
insert_new_uncounted(st, k, paper, i) ==
    [unique_papers |-> Append(st.unique_papers,
                              [key   |-> k,
                               first |-> i,
                               p     |-> [paper EXCEPT !.source_count = 0,
                                                       !.citations_int = cites(paper)]]),
     keys   |-> Append(st.keys, k),
     alerts |-> st.alerts]

\* the else branch (lines 122-124)
insert_new(st, k, paper, i) ==
    [unique_papers |-> Append(st.unique_papers,
                              [key   |-> k,
                               first |-> i,
                               p     |-> [paper EXCEPT !.source_count = 1,
                                                       !.citations_int = cites(paper)]]),
     keys   |-> Append(st.keys, k),
     alerts |-> st.alerts]

\* one iteration of the loop of line 97
merge_record(st, paper, i) ==
    LET k   == key(paper)
        pos == dict_pos(st.unique_papers, k)
    IN IF pos # 0 THEN fold_duplicate(st, pos, k, paper, i) ELSE insert_new(st, k, paper, i)

RECURSIVE merge_loop(_, _)
\* the dict and the printed alerts after the first n records of all_papers
merge_loop(all_papers, n) ==
    IF n = 0 THEN [unique_papers |-> <<>>, keys |-> <<>>, alerts |-> <<>>]
    ELSE merge_record(merge_loop(all_papers, n - 1), all_papers[n], n)

\* the iteration of the loop of line 97 for `paper` raises, st being the state before it
record_raises(st, paper) ==
    \* line 102: .lower() of a title that is no str raises AttributeError
    \/ py_get(paper.title, PyStr(<<>>)).t # "str"
    \/ cites_raises(paper)
    \* line 120: paper['title'] of a dict without that key raises KeyError
    \/ LET pos == dict_pos(st.unique_papers, key(paper))
       IN /\ pos # 0
          /\ alert_fires(config, st.unique_papers[pos].p.source_count + 1)
          /\ paper.title.t = "absent"

\* the first record at which the loop of line 97 raises (0: at none)
first_raise(all_papers) ==
    IF \A i \in 1..Len(all_papers) :
           /\ all_papers[i].title.t = "str"
           /\ ~cites_raises(all_papers[i])
    THEN 0
    ELSE LET at == {i \in 1..Len(all_papers) :
                       record_raises(merge_loop(all_papers, i - 1), all_papers[i])}
         IN IF at = {} THEN 0 ELSE CHOOSE i \in at : \A j \in at : i <= j

\* in tenths
base_score(p) ==
    p.source_count * config.source_weight + p.citations_int * config.citation_weight

\* the window test with > for >=
recency_applies_strict(p) ==
    /\ config.recency_boost
    /\ LET year_val == py_str(py_get(p.year, PyStr(<<>>)))
       IN /\ str_isdigit(year_val)
          /\ Len(year_val) = 4
          /\ ~int_raises(year_val)
          /\ LET paper_year == ParseDigits(year_val)
             IN /\ 1900 <= paper_year
                /\ paper_year <= 2100
                /\ paper_year > current_year - config.recency_years

\* the conditions of lines 130-136 under which the multiplier is applied
recency_applies(p) ==
    /\ config.recency_boost
    /\ LET year_val == py_str(py_get(p.year, PyStr(<<>>)))
       IN /\ str_isdigit(year_val)
          /\ Len(year_val) = 4
          /\ ~int_raises(year_val)
          /\ LET paper_year == ParseDigits(year_val)
             IN /\ 1900 <= paper_year
                /\ paper_year <= 2100
                /\ paper_year >= current_year - config.recency_years

\* line 134: int(year_val) raises although year_val.isdigit() holds
score_raises(p) ==
    LET year_val == py_str(py_get(p.year, PyStr(<<>>)))
    IN propagates_through_except(
           /\ config.recency_boost
           /\ str_isdigit(year_val)
           /\ Len(year_val) = 4
           /\ int_raises(year_val))

\* the body of the loop of line 126
score_paper(p) ==
    IF recency_applies(p)
    THEN [p EXCEPT !.relevance_score =
                       py_int_of_float(base_score(p) * config.recency_multiplier, 100),
                   !.recency_boosted = TRUE]
    ELSE [p EXCEPT !.relevance_score = py_int_of_float(base_score(p), 10)]

RECURSIVE sorted_then_reversed(_)
\* an ascending stable sort read backwards: equal scores come out in reverse order
sorted_then_reversed(s) ==
    IF Len(s) <= 1 THEN s
    ELSE LET rest == sorted_then_reversed(SubSeq(s, 1, Len(s) - 1))
             x    == s[Len(s)]
             pos  == Cardinality({i \in 1..Len(rest) :
                                    rest[i].p.relevance_score > x.p.relevance_score})
         IN SubSeq(rest, 1, pos) \o <<x>> \o SubSeq(rest, pos + 1, Len(rest))

RECURSIVE sorted_reverse(_)
\* sorted(values, key=relevance_score, reverse=True): stable, so an element goes
\* behind every earlier element whose score is at least its own
sorted_reverse(s) ==
    IF Len(s) <= 1 THEN s
    ELSE LET rest == sorted_reverse(SubSeq(s, 1, Len(s) - 1))
             x    == s[Len(s)]
             pos  == Cardinality({i \in 1..Len(rest) :
                                    rest[i].p.relevance_score >= x.p.relevance_score})
         IN SubSeq(rest, 1, pos) \o <<x>> \o SubSeq(rest, pos + 1, Len(rest))

\* raised: the call ends in an exception, after printing `alerts`
deduplicate_and_score(all_papers) ==
    LET r == first_raise(all_papers)
    IN IF r # 0
       THEN LET st == merge_loop(all_papers, r - 1)
            IN [raised |-> TRUE, result |-> <<>>, keys |-> st.keys, alerts |-> st.alerts]
       ELSE LET st     == merge_loop(all_papers, Len(all_papers))
                values == [i \in 1..Len(st.unique_papers) |->
                              [st.unique_papers[i] EXCEPT !.p = score_paper(@)]]
            IN IF \E i \in 1..Len(st.unique_papers) : score_raises(st.unique_papers[i].p)
               THEN [raised |-> TRUE, result |-> <<>>, keys |-> st.keys,
                     alerts |-> st.alerts]
               ELSE [raised |-> FALSE, result |-> sorted_reverse(values),
                     keys |-> st.keys, alerts |-> st.alerts]

----------------------------------------------------------------------------
(* Input records *)

\* the titles of the input records
Titles ==
    [T_DeepLearning |->
         <<"D","e","e","p"," ","L","e","a","r","n","i","n","g"," ","f","o","r"," ","X">>,
     T_DeepLearningDot |->
         <<"D","e","e","p"," ","L","e","a","r","n","i","n","g"," ","f","o","r"," ","X",".">>,
     T_DeepLearningVar |->
         <<" ","d","e","e","p"," ","l","e","a","r","n","i","n","g",":"," ","f","o","r"," ","x"," ">>,
     T_Unrelated |->
         <<"U","n","r","e","l","a","t","e","d"," ","P","a","p","e","r">>,
     T_UnrelatedVar |->
         <<"U","n","r","e","l","a","t","e","d"," ","p","a","p","e","r","!">>,
     T_Other |->
         <<"O","t","h","e","r">>]

\* the input records
Records ==
    [\* the three records of the end-to-end scenario
     RecA |->
         Paper(PyStr(Titles.T_DeepLearning),
               PyStr(<<"1","0",".","1","/","A","B","C">>),
               PyStr(<<"1","2">>),
               PyStr(<<"2","0","2","3">>)),
     RecB |->
         Paper(PyStr(Titles.T_DeepLearningDot),
               PyStr(<<"1","0",".","1","/","a","b","c">>),
               PyInt(5),
               PyStr(<<"2","0","2","3">>)),
     RecC |->
         Paper(PyStr(Titles.T_Unrelated),
               PyStr(NA),
               PyStr(NA),
               PyStr(<<"2","0","1","9">>)),
     \* another informative DOI under the title of RecA; a negative count; the year
     \* just outside a window of five years that ends in 2024
     RecD |->
         Paper(PyStr(Titles.T_DeepLearning),
               PyStr(<<"1","0",".","2","/","x","y","z">>),
               PyInt(-3),
               PyStr(<<"2","0","1","8">>)),
     \* no doi key, a title that normalises to the one of RecA, a float count, an int year
     RecE |->
         Paper(PyStr(Titles.T_DeepLearningVar),
               PyAbsent,
               PyFloat(<<"7",".","0">>),
               PyInt(2024)),
     \* a DOI of four characters, a count with a leading zero, no usable year
     RecF |->
         Paper(PyStr(Titles.T_UnrelatedVar),
               PyStr(<<"1","0",".","1">>),
               PyStr(<<"0","7">>),
               PyStr(<<"n",".","d",".">>)),
     \* the DOI of RecA with other case and blanks around it, under another title;
     \* no citations key; a four-digit year beyond 2100
     RecG |->
         Paper(PyStr(Titles.T_Other),
               PyStr(<<" ","1","0",".","1","/","A","b","c"," ">>),
               PyAbsent,
               PyStr(<<"2","1","0","1">>)),
     \* citations and year of superscript digits: isdigit() holds, int() raises
     RecH |->
         Paper(PyStr(Titles.T_Other),
               PyStr(<<"1","0",".","1","/","a","b","c">>),
               PyStr(<<"^2">>),
               PyStr(<<"^2","^0","^2","^3">>)),
     \* a title of None, a count of None
     RecI |->
         Paper(PyNone,
               PyStr(<<"1","0",".","1","/","a","b","c">>),
               PyNone,
               PyStr(<<"2","0","2","3">>)),
     \* no title key, under the DOI of RecA
     RecJ |->
         Paper(PyAbsent,
               PyStr(<<"1","0",".","1","/","a","b","c">>),
               PyInt(5),
               PyNone),
     \* a doi field of letters only, the normalised title of RecA and RecE
     RecK |->
         Paper(PyStr(Titles.T_Other),
               PyStr(<<"d","e","e","p","l","e","a","r","n","i","n","g","f","o","r","x">>),
               PyInt(3),
               PyStr(<<"2","0","2","2">>))]

SeqsUpTo(S, n) == UNION {[1..k -> S] : k \in 0..n}

\* configurations deduplicate_and_score is run under
ConfigSet ==
    {[DefaultConfig EXCEPT !.high_consensus_threshold = th] : th \in 1..MaxLen}
    \cup {[DefaultConfig EXCEPT !.high_consensus_threshold = 2, !.enable_alerts = FALSE],
          [DefaultConfig EXCEPT !.high_consensus_threshold = 2, !.citation_weight = 15],
          [DefaultConfig EXCEPT !.high_consensus_threshold = 2, !.citation_weight = 15,
                                !.recency_boost = FALSE]}

\* the lists deduplicate_and_score is called on: every list of at most MaxLen
\* records of RecA .. RecG, and some longer ones and ones of the other records
InputLists ==
    SeqsUpTo({Records.RecA, Records.RecB, Records.RecC, Records.RecD, Records.RecE,
              Records.RecF, Records.RecG}, MaxLen)
    \cup
    {<<Records.RecA, Records.RecG, Records.RecD, Records.RecC, Records.RecF>>,
     <<Records.RecH>>, <<Records.RecH, Records.RecA>>, <<Records.RecH, Records.RecA, Records.RecC>>, <<Records.RecA, Records.RecH, Records.RecG>>, <<Records.RecC, Records.RecH, Records.RecF>>,
     <<Records.RecG, Records.RecH>>, <<Records.RecH, Records.RecG, Records.RecE>>,
     <<Records.RecI>>, <<Records.RecA, Records.RecI>>, <<Records.RecJ>>, <<Records.RecA, Records.RecJ>>, <<Records.RecA, Records.RecJ, Records.RecB>>,
     <<Records.RecJ, Records.RecJ>>,
     <<Records.RecK, Records.RecE>>, <<Records.RecE, Records.RecK>>,
     <<Records.RecA, Records.RecK, Records.RecE>>, <<Records.RecC, Records.RecK>>}

\* values of datetime.now().year
Years == {2024, 2025}

----------------------------------------------------------------------------
(* run_search *)

\* engines in the order run_search submits them (lines 319, 356, 389)
Engines == <<"Semantic Scholar", "arXiv", "DBLP">>

EngineSet == Range(Engines)

\* engines submitted only with a valid API key, and the name of their key
PremiumKey == [e \in {"Semantic Scholar"} |-> "s2"]

\* records the adapter of an engine may return
Catalogue(e) ==
    CASE e = "Semantic Scholar" -> {Records.RecA, Records.RecC}
      [] e = "arXiv"            -> {Records.RecB, Records.RecE}
      [] OTHER                  -> {Records.RecG, Records.RecF}

\* is_valid_key of line 315
is_valid_key(k) == py_truthy(k) /\ k.t = "str" /\ Len(str_strip(k.s)) > 5

\* the futures as_completed has still to yield
pending == {e \in EngineSet : tasks[e] # "unsubmitted" /\ e \notin collected}

\* the loop of line 397 has ended
as_completed_exhausted == pending = {}

\* ThreadPoolExecutor.__exit__ (shutdown(wait=True)) has returned
executor_idle == \A e \in EngineSet : tasks[e] # "running"

\* deduplicate_and_score called from inside the loop body
merge_inside_loop == collected # {}

\* line 415 is reached: after the loop, outside the with block
merge_may_start == as_completed_exhausted /\ executor_idle

\* combined_results = data, for combined_results.extend(data)
assign_results(e) == returned[e]

\* combined_results after line 402
extend_results(e) == combined_results \o returned[e]

\* analyze_research_gaps is not running
gap_idle ==
    /\ results = <<>>
    /\ query = <<>>
    /\ min_confidence = 30
    /\ mined = 0
    /\ found_gaps = <<>>
    /\ tallies = [all_keywords |-> <<>>, gap_categories |-> <<>>,
                  temporal_distribution |-> <<>>, author_gaps |-> <<>>,
                  total_sentences |-> 0]
    /\ report = <<>>
    /\ analysis = <<>>

\* before identify_priority_gaps, execute_research_pipeline or format_authors_ieee is
\* called: st.session_state as initialize_session_state leaves it (lines 88-133)
app_idle ==
    /\ top_n = 0
    /\ priority_gaps = <<>>
    /\ session_state = [step |-> "input", is_processing |-> FALSE,
                        sources |-> 0, rejected_sources |-> 0]
    /\ stage_calls = <<>>
    /\ authors_str = <<>>
    /\ formatted = <<>>

Init ==
    \* values of the S2_API_KEY environment variable
    /\ api_keys \in [{"s2"} -> {PyNone, PyStr(<<"k","e","y","1","2">>),
                                PyStr(<<" ","s","2","k","e","y","1"," ">>)}]
    /\ config = DefaultConfig
    /\ current_year = 2024
    /\ pc = "submit"
    /\ submitted = 0
    /\ tasks = [e \in EngineSet |-> "unsubmitted"]
    /\ returned = [e \in EngineSet |-> <<>>]
    /\ collected = {}
    /\ combined_results = <<>>
    /\ successful_engines = <<>>
    /\ failed_engines = <<>>
    /\ total_api_calls = 0
    /\ final_list = <<>>
    /\ alerts = <<>>
    /\ record_keys = <<>>
    /\ gap_idle
    /\ app_idle

\* one block of lines 319-394: submit the next engine, or skip it for want of a key
Submit ==
    /\ pc = "submit"
    /\ submitted < Len(Engines)
    /\ LET e == Engines[submitted + 1]
       IN IF e \in DOMAIN PremiumKey /\ ~is_valid_key(api_keys[PremiumKey[e]])
          THEN /\ failed_engines' =
                      Append(failed_engines, [engine |-> e, reason |-> "no API key"])
               /\ UNCHANGED tasks
          ELSE /\ tasks' = [tasks EXCEPT ![e] = "running"]
               /\ UNCHANGED failed_engines
    /\ submitted' = submitted + 1
    /\ pc' = IF submitted + 1 = Len(Engines) THEN "collect" ELSE "submit"
    /\ UNCHANGED <<api_keys, config, current_year, returned, collected, combined_results,
                   successful_engines, total_api_calls, final_list, alerts, record_keys, gap_vars, app_vars>>

\* a worker thread: the adapter of engine e returns a list
AdapterReturn(e) ==
    /\ tasks[e] = "running"
    /\ \E data \in SeqsUpTo(Catalogue(e), MaxPerAdapter) :
          returned' = [returned EXCEPT ![e] = data]
    /\ tasks' = [tasks EXCEPT ![e] = "returned"]
    /\ UNCHANGED <<api_keys, config, current_year, pc, submitted, collected, combined_results,
                   successful_engines, failed_engines, total_api_calls, final_list, alerts, record_keys, gap_vars, app_vars>>

\* a worker thread: the adapter of engine e raises
AdapterRaise(e) ==
    /\ tasks[e] = "running"
    /\ tasks' = [tasks EXCEPT ![e] = "raised"]
    /\ UNCHANGED <<api_keys, config, current_year, pc, submitted, returned, collected,
                   combined_results, successful_engines, failed_engines, total_api_calls,
                   final_list, alerts, record_keys, gap_vars, app_vars>>

\* one iteration of the loop of line 397 for a future as_completed yields
Collect(e) ==
    /\ pc = "collect"
    /\ e \in pending
    /\ tasks[e] \in {"returned", "raised"}
    /\ collected' = collected \cup {e}
    /\ IF tasks[e] = "returned" /\ Len(returned[e]) > 0
       THEN /\ combined_results' = extend_results(e)
            /\ successful_engines' = Append(successful_engines, e)
            /\ total_api_calls' = total_api_calls + 1
            /\ UNCHANGED failed_engines
       ELSE /\ failed_engines' =
                   \* `engine_name not in failed_engines`: an entry of the list is
                   \* the name followed by a reason in brackets, so it equals the
                   \* bare name only if the reason is empty
                   IF \A i \in 1..Len(failed_engines) :
                          failed_engines[i] # [engine |-> e, reason |-> ""]
                   THEN Append(failed_engines,
                               [engine |-> e,
                                reason |-> IF tasks[e] = "returned"
                                           THEN "no results" ELSE "error"])
                   ELSE failed_engines
            /\ UNCHANGED <<combined_results, successful_engines, total_api_calls>>
    /\ UNCHANGED <<api_keys, config, current_year, pc, submitted, tasks, returned,
                   final_list, alerts, record_keys, gap_vars, app_vars>>

\* deduplicate_and_score(combined_results) and what it prints
CallDedup ==
    /\ LET out == deduplicate_and_score(combined_results)
       IN /\ final_list' = out.result
          /\ alerts' = out.alerts
          /\ record_keys' = out.keys
          /\ pc' = IF out.raised THEN "raised" ELSE "done"
    /\ UNCHANGED <<api_keys, config, current_year, submitted, tasks, returned, collected,
                   combined_results, successful_engines, failed_engines, total_api_calls,
                   gap_vars, app_vars>>

\* line 415, reached when the loop and the with block have ended
Merge ==
    /\ pc = "collect"
    /\ merge_may_start
    /\ CallDedup

Next ==
    \/ Submit
    \/ \E e \in EngineSet : AdapterReturn(e)
    \/ \E e \in EngineSet : AdapterRaise(e)
    \/ \E e \in EngineSet : Collect(e)
    \/ Merge

Spec == Init /\ [][Next]_vars

----------------------------------------------------------------------------
(* deduplicate_and_score called on its own *)

DedupInit ==
    /\ api_keys = [k \in {"s2"} |-> PyNone]
    /\ config \in ConfigSet
    /\ current_year \in Years
    /\ pc = "call"
    /\ submitted = 0
    /\ tasks = [e \in EngineSet |-> "unsubmitted"]
    /\ returned = [e \in EngineSet |-> <<>>]
    /\ collected = {}
    /\ combined_results \in InputLists
    /\ successful_engines = <<>>
    /\ failed_engines = <<>>
    /\ total_api_calls = 0
    /\ final_list = <<>>
    /\ alerts = <<>>
    /\ record_keys = <<>>
    /\ gap_idle
    /\ app_idle

DedupCall ==
    /\ pc = "call"
    /\ CallDedup

SpecDedup == DedupInit /\ [][DedupCall]_vars

\* between two calls: the caller keeps the papers the call returned, the dicts the
\* call wrote source_count, citations_int, relevance_score and recency_boosted to,
\* and hands them to the next call, with recency_boost switched off or in a later year
Reconfigure ==
    /\ pc = "done"
    /\ final_list # <<>>
    /\ config' \in {config, [config EXCEPT !.recency_boost = FALSE]}
    /\ current_year' \in {y \in Years : y >= current_year}
    /\ combined_results' = [i \in 1..Len(final_list) |-> final_list[i].p]
    /\ pc' = "call_again"
    /\ UNCHANGED <<api_keys, submitted, tasks, returned, collected, successful_engines,
                   failed_engines, total_api_calls, final_list, alerts, record_keys,
                   gap_vars, app_vars>>

\* deduplicate_and_score on the papers of the earlier call
Remerge ==
    /\ pc = "call_again"
    /\ LET out == deduplicate_and_score(combined_results)
       IN /\ final_list' = out.result
          /\ alerts' = out.alerts
          /\ record_keys' = out.keys
          /\ pc' = IF out.raised THEN "raised" ELSE "remerged"
    /\ UNCHANGED <<api_keys, config, current_year, submitted, tasks, returned, collected,
                   combined_results, successful_engines, failed_engines, total_api_calls,
                   gap_vars, app_vars>>

SpecRemerge == DedupInit /\ [][DedupCall \/ Reconfigure \/ Remerge]_vars

----------------------------------------------------------------------------
(* gap_utils.py: text primitives *)

\* the k-th smallest element of a set of numbers
NthOf(S, k) == CHOOSE i \in S : Cardinality({j \in S : j < i}) = k - 1

\* the maximal runs of the characters of s whose mask is TRUE, in order; runs_to[i]
\* is the number of runs that start at i or before it
RunsOf(s, mask) ==
    LET n       == Len(s)
        starts  == {i \in 1..n : mask[i] /\ (i = 1 \/ ~mask[i - 1])}
        ends    == {i \in 1..n : mask[i] /\ (i = n \/ ~mask[i + 1])}
        runs_to == [i \in 1..n |-> Cardinality({b \in starts : b <= i})] \o <<>>
    IN [k \in 1..Cardinality(starts) |->
           SubSeq(s, CHOOSE i \in starts : runs_to[i] = k,
                     CHOOSE e \in ends : runs_to[e] = k)]

\* str.split()
str_split(s) == RunsOf(s, [i \in 1..Len(s) |-> ~IsSpaceChar(s[i])])

\* re.findall(r'\b\w+\b', s)
findall_words(s) == RunsOf(s, [i \in 1..Len(s) |-> IsAlnumChar(s[i]) \/ s[i] = "_"])

\* `sub in s` for two str
contains(s, sub) ==
    \E i \in 1..(Len(s) - Len(sub) + 1) : SubSeq(s, i, i + Len(sub) - 1) = sub

\* re.split(r'(?<=[.!?])\s+', text): the separators are the maximal runs of
\* whitespace that follow a terminator
split_sentences(text) ==
    LET n      == Len(text)
        starts == {i \in 2..n : /\ IsSpaceChar(text[i])
                                /\ text[i - 1] \in {".", "!", "?"}}
        k      == Cardinality(starts)
    IN [j \in 1..(k + 1) |->
           SubSeq(text,
                  IF j = 1 THEN 1 ELSE FirstKept(text, NthOf(starts, j - 1)),
                  IF j = k + 1 THEN n ELSE NthOf(starts, j) - 1)]

----------------------------------------------------------------------------
(* gap_utils.py: vocabularies and pattern packs *)

\* self.negation_terms, self.uncertainty_terms and self.future_oriented of
\* GapSentenceAnalyzer.__init__ (lines 157-176)
self ==
    [negation_terms |->
         {<<"n","o","t">>, <<"n","o">>, <<"n","e","v","e","r">>, <<"n","e","i","t","h","e","r">>,
          <<"n","o","r">>, <<"n","o","n","e">>, <<"n","o","t","h","i","n","g">>,
          <<"n","o","b","o","d","y">>, <<"n","o","w","h","e","r","e">>, <<"h","a","r","d","l","y">>,
          <<"s","c","a","r","c","e","l","y">>, <<"b","a","r","e","l","y">>, <<"d","o","n","'","t">>,
          <<"d","o","e","s","n","'","t">>, <<"d","i","d","n","'","t">>, <<"w","o","n","'","t">>,
          <<"w","o","u","l","d","n","'","t">>, <<"s","h","o","u","l","d","n","'","t">>,
          <<"c","o","u","l","d","n","'","t">>, <<"c","a","n","'","t">>, <<"i","s","n","'","t">>,
          <<"a","r","e","n","'","t">>, <<"w","a","s","n","'","t">>, <<"w","e","r","e","n","'","t">>,
          <<"h","a","s","n","'","t">>, <<"h","a","v","e","n","'","t">>, <<"h","a","d","n","'","t">>,
          <<"l","a","c","k">>, <<"l","a","c","k","i","n","g">>, <<"a","b","s","e","n","c","e">>,
          <<"a","b","s","e","n","t">>, <<"w","i","t","h","o","u","t">>},
     uncertainty_terms |->
         {<<"u","n","c","l","e","a","r">>, <<"u","n","k","n","o","w","n">>,
          <<"u","n","c","e","r","t","a","i","n">>, <<"a","m","b","i","g","u","o","u","s">>,
          <<"o","b","s","c","u","r","e">>, <<"v","a","g","u","e">>,
          <<"p","u","z","z","l","i","n","g">>, <<"p","e","r","p","l","e","x","i","n","g">>,
          <<"e","n","i","g","m","a","t","i","c">>, <<"m","y","s","t","e","r","i","o","u","s">>,
          <<"d","e","b","a","t","a","b","l","e">>,
          <<"q","u","e","s","t","i","o","n","a","b","l","e">>, <<"d","o","u","b","t","f","u","l">>,
          <<"d","u","b","i","o","u","s">>, <<"i","n","c","o","n","c","l","u","s","i","v","e">>,
          <<"u","n","r","e","s","o","l","v","e","d">>,
          <<"u","n","d","e","t","e","r","m","i","n","e","d">>,
          <<"u","n","v","e","r","i","f","i","e","d">>, <<"u","n","p","r","o","v","e","n">>,
          <<"s","p","e","c","u","l","a","t","i","v","e">>, <<"t","e","n","t","a","t","i","v","e">>},
     future_oriented |->
         {<<"f","u","t","u","r","e">>, <<"f","u","r","t","h","e","r">>, <<"n","e","x","t">>,
          <<"s","u","b","s","e","q","u","e","n","t">>,
          <<"f","o","r","t","h","c","o","m","i","n","g">>, <<"u","p","c","o","m","i","n","g">>,
          <<"p","r","o","s","p","e","c","t","i","v","e">>, <<"p","l","a","n","n","e","d">>,
          <<"i","n","t","e","n","d","e","d">>, <<"p","r","o","p","o","s","e","d">>,
          <<"r","e","c","o","m","m","e","n","d","e","d">>, <<"s","u","g","g","e","s","t","e","d">>,
          <<"s","h","o","u","l","d">>, <<"n","e","e","d","s"," ","t","o">>, <<"m","u","s","t">>,
          <<"r","e","q","u","i","r","e">>, <<"w","a","r","r","a","n","t">>}]

\* tech_terms of analyze_research_gaps (lines 400-402)
tech_terms ==
    <<<<"a","i">>,
     <<"a","r","t","i","f","i","c","i","a","l"," ","i","n","t","e","l","l","i","g","e","n","c","e">>,
     <<"m","a","c","h","i","n","e"," ","l","e","a","r","n","i","n","g">>,
     <<"d","e","e","p"," ","l","e","a","r","n","i","n","g">>,
     <<"n","e","u","r","a","l"," ","n","e","t","w","o","r","k">>,
     <<"a","l","g","o","r","i","t","h","m">>,
     <<"c","o","m","p","u","t","a","t","i","o","n","a","l">>, <<"m","o","d","e","l">>,
     <<"p","r","e","d","i","c","t","i","o","n">>,
     <<"c","l","a","s","s","i","f","i","c","a","t","i","o","n">>,
     <<"r","e","g","r","e","s","s","i","o","n">>, <<"n","l","p">>,
     <<"c","o","m","p","u","t","e","r"," ","v","i","s","i","o","n">>>>

\* clinical_terms of analyze_research_gaps (lines 403-405)
clinical_terms ==
    <<<<"p","a","t","i","e","n","t">>, <<"c","l","i","n","i","c","a","l">>,
     <<"t","r","e","a","t","m","e","n","t">>, <<"t","h","e","r","a","p","y">>,
     <<"d","i","s","e","a","s","e">>, <<"d","i","a","g","n","o","s","i","s">>,
     <<"m","e","d","i","c","a","l">>, <<"h","o","s","p","i","t","a","l">>,
     <<"h","e","a","l","t","h">>, <<"m","e","d","i","c","i","n","e">>, <<"d","r","u","g">>,
     <<"s","u","r","g","i","c","a","l">>, <<"s","y","m","p","t","o","m">>,
     <<"p","r","o","g","n","o","s","i","s">>, <<"b","i","o","m","a","r","k","e","r">>>>

\* A regular expression of the packs is a sequence of groups, a group the set of
\* its alternatives (a literal stretch is a group of one), all in lower case as
\* re.IGNORECASE compares them.  A pack is the sequence of its entries in the
\* insertion order of the dict; the model carries the entries its corpus can
\* match and leaves out those that match none of its sentences.

\* get_general_gap_patterns() (lines 71-131)
get_general_gap_patterns ==
  <<
    \* r"(?:further|future|additional) (?:research|studies|investigations|work) (?:is|are|will be|should be|needed|required|warranted|necessary)"
    [pattern |->
          <<{<<"f","u","r","t","h","e","r">>, <<"f","u","t","u","r","e">>,
             <<"a","d","d","i","t","i","o","n","a","l">>},
            {<<" ">>},
            {<<"r","e","s","e","a","r","c","h">>, <<"s","t","u","d","i","e","s">>,
             <<"i","n","v","e","s","t","i","g","a","t","i","o","n","s">>, <<"w","o","r","k">>},
            {<<" ">>},
            {<<"i","s">>, <<"a","r","e">>, <<"w","i","l","l"," ","b","e">>,
             <<"s","h","o","u","l","d"," ","b","e">>, <<"n","e","e","d","e","d">>,
             <<"r","e","q","u","i","r","e","d">>, <<"w","a","r","r","a","n","t","e","d">>,
             <<"n","e","c","e","s","s","a","r","y">>}>>,
     category |-> "Future Research Needed"],
    \* r"(?:more|additional) (?:research|studies|data|evidence) (?:is|are) (?:needed|required|warranted)"
    [pattern |->
          <<{<<"m","o","r","e">>, <<"a","d","d","i","t","i","o","n","a","l">>},
            {<<" ">>},
            {<<"r","e","s","e","a","r","c","h">>, <<"s","t","u","d","i","e","s">>,
             <<"d","a","t","a">>, <<"e","v","i","d","e","n","c","e">>},
            {<<" ">>},
            {<<"i","s">>, <<"a","r","e">>},
            {<<" ">>},
            {<<"n","e","e","d","e","d">>, <<"r","e","q","u","i","r","e","d">>,
             <<"w","a","r","r","a","n","t","e","d">>}>>,
     category |-> "More Research Needed"],
    \* r"(?:lack|dearth|absence|paucity|shortage) of (?:evidence|studies|data|research|literature|information)"
    [pattern |->
          <<{<<"l","a","c","k">>, <<"d","e","a","r","t","h">>, <<"a","b","s","e","n","c","e">>,
             <<"p","a","u","c","i","t","y">>, <<"s","h","o","r","t","a","g","e">>},
            {<<" ","o","f"," ">>},
            {<<"e","v","i","d","e","n","c","e">>, <<"s","t","u","d","i","e","s">>,
             <<"d","a","t","a">>, <<"r","e","s","e","a","r","c","h">>,
             <<"l","i","t","e","r","a","t","u","r","e">>,
             <<"i","n","f","o","r","m","a","t","i","o","n">>}>>,
     category |-> "Evidence Gap"],
    \* r"data (?:scarcity|limitations|gaps|deficits|are lacking)"
    [pattern |->
          <<{<<"d","a","t","a"," ">>},
            {<<"s","c","a","r","c","i","t","y">>,
             <<"l","i","m","i","t","a","t","i","o","n","s">>, <<"g","a","p","s">>,
             <<"d","e","f","i","c","i","t","s">>,
             <<"a","r","e"," ","l","a","c","k","i","n","g">>}>>,
     category |-> "Data Scarcity"],
    \* r"(?:high-quality|robust|reliable) (?:data|evidence) (?:is|are) (?:lacking|needed|required)"
    [pattern |->
          <<{<<"h","i","g","h","-","q","u","a","l","i","t","y">>, <<"r","o","b","u","s","t">>,
             <<"r","e","l","i","a","b","l","e">>},
            {<<" ">>},
            {<<"d","a","t","a">>, <<"e","v","i","d","e","n","c","e">>},
            {<<" ">>},
            {<<"i","s">>, <<"a","r","e">>},
            {<<" ">>},
            {<<"l","a","c","k","i","n","g">>, <<"n","e","e","d","e","d">>,
             <<"r","e","q","u","i","r","e","d">>}>>,
     category |-> "Quality Evidence Gap"]
  >>

\* get_ai_gap_patterns() (lines 10-40)
get_ai_gap_patterns ==
  <<
    \* r"computationally (?:expensive|prohibitive|demanding)"
    [pattern |->
          <<{<<"c","o","m","p","u","t","a","t","i","o","n","a","l","l","y"," ">>},
            {<<"e","x","p","e","n","s","i","v","e">>,
             <<"p","r","o","h","i","b","i","t","i","v","e">>,
             <<"d","e","m","a","n","d","i","n","g">>}>>,
     category |-> "Computational Cost"],
    \* r"data (?:scarcity|sparsity|imbalance|paucity)"
    [pattern |->
          <<{<<"d","a","t","a"," ">>},
            {<<"s","c","a","r","c","i","t","y">>, <<"s","p","a","r","s","i","t","y">>,
             <<"i","m","b","a","l","a","n","c","e">>, <<"p","a","u","c","i","t","y">>}>>,
     category |-> "Data Scarcity"]
  >>

\* get_clinical_gap_patterns() (lines 42-69)
get_clinical_gap_patterns ==
  <<
    \* r"lack of (?:longitudinal|long-term) (?:studies|data|outcomes)"
    [pattern |->
          <<{<<"l","a","c","k"," ","o","f"," ">>},
            {<<"l","o","n","g","i","t","u","d","i","n","a","l">>,
             <<"l","o","n","g","-","t","e","r","m">>},
            {<<" ">>},
            {<<"s","t","u","d","i","e","s">>, <<"d","a","t","a">>,
             <<"o","u","t","c","o","m","e","s">>}>>,
     category |-> "Longitudinal Data Gap"]
  >>

\* get_emerging_gap_patterns() (lines 133-147)
get_emerging_gap_patterns ==
  <<
    \* r"(?:health|research|knowledge) (?:equity|disparity|inequity)"
    [pattern |->
          <<{<<"h","e","a","l","t","h">>, <<"r","e","s","e","a","r","c","h">>,
             <<"k","n","o","w","l","e","d","g","e">>},
            {<<" ">>},
            {<<"e","q","u","i","t","y">>, <<"d","i","s","p","a","r","i","t","y">>,
             <<"i","n","e","q","u","i","t","y">>}>>,
     category |-> "Equity Gap"],
    \* r"(?:underrepresented|marginalized|minority) (?:populations|groups|communities)"
    [pattern |->
          <<{<<"u","n","d","e","r","r","e","p","r","e","s","e","n","t","e","d">>,
             <<"m","a","r","g","i","n","a","l","i","z","e","d">>,
             <<"m","i","n","o","r","i","t","y">>},
            {<<" ">>},
            {<<"p","o","p","u","l","a","t","i","o","n","s">>, <<"g","r","o","u","p","s">>,
             <<"c","o","m","m","u","n","i","t","i","e","s">>}>>,
     category |-> "Representation Gap"]
  >>

----------------------------------------------------------------------------
(* gap_utils.py: GapSentenceAnalyzer and the pattern dictionary *)

\* round(x / unit) as Python rounds: to the nearest, a half to the even neighbour
py_round(x, unit) ==
    LET q == x \div unit
        r == x % unit
    IN IF 2 * r < unit THEN q
       ELSE IF 2 * r > unit THEN q + 1
       ELSE IF q % 2 = 0 THEN q ELSE q + 1

\* sum(1 for term in terms if term in text)
count_contained(terms, text) == Cardinality({t \in terms : contains(text, t)})

\* any(term in text for term in terms)
any_contained(terms, text) == \E t \in Range(terms) : contains(text, t)

\* _calculate_complexity, in hundredths: the sum of the word lengths is the number
\* of characters that are no whitespace
calculate_complexity(sentence) ==
    LET words   == str_split(sentence)
        letters == Cardinality({i \in 1..Len(sentence) : ~IsSpaceChar(sentence[i])})
        clauses == Cardinality({i \in 1..Len(sentence) : sentence[i] \in {",", ";", ":", "."}}) + 1
    IN IF Len(words) = 0 THEN 0
       ELSE IF 2 * letters * clauses >= 100 * Len(words) THEN 100
       ELSE py_round(2 * letters * clauses, Len(words))

\* _calculate_certainty, in tenths
calculate_certainty(sentence_lower) ==
    LET certainty_markers ==
            {<<"d","e","f","i","n","i","t","e","l","y">>, <<"c","e","r","t","a","i","n","l","y">>,
             <<"c","l","e","a","r","l","y">>, <<"o","b","v","i","o","u","s","l","y">>,
             <<"d","e","m","o","n","s","t","r","a","b","l","y">>, <<"p","r","o","v","e","n">>,
             <<"e","s","t","a","b","l","i","s","h","e","d">>, <<"c","o","n","f","i","r","m","e","d">>,
             <<"v","e","r","i","f","i","e","d">>, <<"c","o","n","c","l","u","s","i","v","e">>}
        uncertainty_count == count_contained(self.uncertainty_terms, sentence_lower)
        certainty_count   == count_contained(certainty_markers, sentence_lower)
        score             == 5 + (certainty_count - uncertainty_count)
    IN IF score < 0 THEN 0 ELSE IF score > 10 THEN 10 ELSE score

\* _is_recommendation
is_recommendation(sentence_lower) ==
    LET recommendation_starters ==
            <<<<"w","e"," ","r","e","c","o","m","m","e","n","d">>,
             <<"i","t"," ","i","s"," ","r","e","c","o","m","m","e","n","d","e","d">>,
             <<"f","u","t","u","r","e"," ","w","o","r","k"," ","s","h","o","u","l","d">>,
             <<"r","e","s","e","a","r","c","h","e","r","s"," ","s","h","o","u","l","d">>,
             <<"s","t","u","d","i","e","s"," ","s","h","o","u","l","d">>,
             <<"f","u","r","t","h","e","r"," ","r","e","s","e","a","r","c","h">>,
             <<"f","u","t","u","r","e"," ","s","t","u","d","i","e","s">>,
             <<"i","n","v","e","s","t","i","g","a","t","i","o","n"," ","s","h","o","u","l","d">>,
             <<"a","t","t","e","n","t","i","o","n"," ","s","h","o","u","l","d">>>>
    IN any_contained(recommendation_starters, sentence_lower)

\* _is_limitation
is_limitation(sentence_lower) ==
    LET limitation_indicators ==
            <<<<"l","i","m","i","t","a","t","i","o","n">>, <<"l","i","m","i","t","e","d"," ","b","y">>,
             <<"c","o","n","s","t","r","a","i","n","e","d"," ","b","y">>,
             <<"r","e","s","t","r","i","c","t","e","d"," ","b","y">>,
             <<"h","i","n","d","e","r","e","d"," ","b","y">>,
             <<"h","a","m","p","e","r","e","d"," ","b","y">>,
             <<"i","m","p","e","d","e","d"," ","b","y">>, <<"b","o","t","t","l","e","n","e","c","k">>>>
    IN any_contained(limitation_indicators, sentence_lower)

\* the sum with the penalty of short sentences left out
confidence_sum_unpenalised(a) ==
    500 + (IF a.has_negation /\ a.has_uncertainty THEN 200 ELSE 0)
        + (IF a.is_future_oriented THEN 150 ELSE 0)
        + (IF a.is_recommendation THEN 100 ELSE 0)
        + (IF a.is_limitation THEN 100 ELSE 0)

\* the sum with a penalty of 0.3 for short sentences
confidence_sum_heavy_penalty(a) ==
    500 + (IF a.has_negation /\ a.has_uncertainty THEN 200 ELSE 0)
        + (IF a.is_future_oriented THEN 150 ELSE 0)
        - (IF a.sentence_length < 8 THEN 300 ELSE 0)
        + (IF a.is_recommendation THEN 100 ELSE 0)
        + (IF a.is_limitation THEN 100 ELSE 0)

\* the sum of lines 247-265, in thousandths
confidence_sum(a) ==
    500 + (IF a.has_negation /\ a.has_uncertainty THEN 200 ELSE 0)
        + (IF a.is_future_oriented THEN 150 ELSE 0)
        - (IF a.sentence_length < 8 THEN 100 ELSE 0)
        + (IF a.is_recommendation THEN 100 ELSE 0)
        + (IF a.is_limitation THEN 100 ELSE 0)

\* _calculate_confidence, in hundredths
calculate_confidence(a) ==
    LET score   == confidence_sum(a)
        clamped == IF score < 0 THEN 0 ELSE IF score > 1000 THEN 1000 ELSE score
    IN py_round(clamped, 10)

\* analyze_sentence; complexity_score and confidence in hundredths, certainty_score
\* in tenths
analyze_sentence(sentence) ==
    LET sentence_lower == str_lower(sentence)
        words          == Range(findall_words(sentence_lower))
        a == [has_negation       |-> words \cap self.negation_terms # {},
              has_uncertainty    |-> words \cap self.uncertainty_terms # {},
              is_future_oriented |-> words \cap self.future_oriented # {},
              sentence_length    |-> Len(str_split(sentence)),
              word_count         |-> Cardinality(words),
              complexity_score   |-> calculate_complexity(sentence),
              certainty_score    |-> calculate_certainty(sentence_lower),
              is_recommendation  |-> is_recommendation(sentence_lower),
              is_limitation      |-> is_limitation(sentence_lower),
              confidence         |-> 0]
    IN [a EXCEPT !.confidence = calculate_confidence(a)]

RECURSIVE match_from(_, _, _, _)
\* the groups g, g + 1, ... of the pattern match s from position i on
match_from(s, i, pattern, g) ==
    IF g > Len(pattern) THEN TRUE
    ELSE \E alt \in pattern[g] :
            /\ i + Len(alt) - 1 <= Len(s)
            /\ s[i] = alt[1]
            /\ SubSeq(s, i, i + Len(alt) - 1) = alt
            /\ match_from(s, i + Len(alt), pattern, g + 1)

\* pattern.search(sentence) of a pattern compiled with re.IGNORECASE
pattern_search(pattern, sentence) ==
    LET low == str_lower(sentence)
    IN \E i \in 1..Len(low) : match_from(low, i, pattern, 1)

RECURSIVE dict_update(_, _)
\* d.update(e): an entry of e replaces the value under a key d holds and is
\* appended under a new key
dict_update(d, e) ==
    IF Len(e) = 0 THEN d
    ELSE LET x    == Head(e)
             held == {i \in 1..Len(d) : d[i].pattern = x.pattern}
         IN dict_update(IF held = {}
                        THEN Append(d, x)
                        ELSE [i \in 1..Len(d) |-> IF i \in held THEN x ELSE d[i]],
                        Tail(e))

\* sum(1 for term in terms if term in query_lower) of lines 407-408
domain_score(terms, q) ==
    Cardinality({i \in 1..Len(terms) : contains(str_lower(q), terms[i])})

\* all_patterns after line 421, which compiled_patterns follows entry by entry
all_patterns(q) ==
    LET general  == dict_update(<<>>, get_general_gap_patterns)
        tech     == IF domain_score(tech_terms, q) > 0
                    THEN dict_update(general, get_ai_gap_patterns) ELSE general
        clinical == IF domain_score(clinical_terms, q) > 0
                    THEN dict_update(tech, get_clinical_gap_patterns) ELSE tech
    IN dict_update(clinical, get_emerging_gap_patterns)

\* pattern_types after line 422
pattern_types(q) ==
    <<"General">>
    \o (IF domain_score(tech_terms, q) > 0 THEN <<"Technical/AI">> ELSE <<>>)
    \o (IF domain_score(clinical_terms, q) > 0 THEN <<"Clinical/Medical">> ELSE <<>>)
    \o <<"Emerging">>

----------------------------------------------------------------------------
(* A corpus of papers for analyze_research_gaps *)

\* the sentences of the corpus.  S_Many is 98 times "a " and "lack of data.", 101
\* words in 209 characters; S_Huge is "We saw a lack of data ", 480 times "z" and
\* ".", 7 words in 503 characters.
Sentence ==
    [\* "Further research is needed on rare data."
     S_Future |->
         <<"F","u","r","t","h","e","r"," ","r","e","s","e","a","r","c","h"," ","i","s"," ",
           "n","e","e","d","e","d"," ","o","n"," ","r","a","r","e"," ","d","a","t","a",
           ".">>,
     \* "Data scarcity and a lack of evidence remain unclear."
     S_Two |->
         <<"D","a","t","a"," ","s","c","a","r","c","i","t","y"," ","a","n","d"," ","a"," ",
           "l","a","c","k"," ","o","f"," ","e","v","i","d","e","n","c","e"," ","r","e","m",
           "a","i","n"," ","u","n","c","l","e","a","r",".">>,
     \* "We saw a lack of data."
     S_Short |->
         <<"W","e"," ","s","a","w"," ","a"," ","l","a","c","k"," ","o","f"," ","d","a","t",
           "a",".">>,
     \* "A lack of data."
     S_Tiny |->
         <<"A"," ","l","a","c","k"," ","o","f"," ","d","a","t","a",".">>,
     \* "Such models are computationally expensive for underrepresented groups today."
     S_Cost |->
         <<"S","u","c","h"," ","m","o","d","e","l","s"," ","a","r","e"," ","c","o","m","p",
           "u","t","a","t","i","o","n","a","l","l","y"," ","e","x","p","e","n","s","i","v",
           "e"," ","f","o","r"," ","u","n","d","e","r","r","e","p","r","e","s","e","n","t",
           "e","d"," ","g","r","o","u","p","s"," ","t","o","d","a","y",".">>,
     \* "There is a lack of long-term data on safety outcomes."
     S_LongTerm |->
         <<"T","h","e","r","e"," ","i","s"," ","a"," ","l","a","c","k"," ","o","f"," ","l",
           "o","n","g","-","t","e","r","m"," ","d","a","t","a"," ","o","n"," ","s","a","f",
           "e","t","y"," ","o","u","t","c","o","m","e","s",".">>,
     \* "The method works well on every benchmark we tried."
     S_Plain |->
         <<"T","h","e"," ","m","e","t","h","o","d"," ","w","o","r","k","s"," ","w","e","l",
           "l"," ","o","n"," ","e","v","e","r","y"," ","b","e","n","c","h","m","a","r","k",
           " ","w","e"," ","t","r","i","e","d",".">>,
     \* "A lack of data on adults, girls, boys, women and men."
     K_Seed |->
         <<"A"," ","l","a","c","k"," ","o","f"," ","d","a","t","a"," ","o","n"," ","a","d",
           "u","l","t","s",","," ","g","i","r","l","s",","," ","b","o","y","s",","," ","w",
           "o","m","e","n"," ","a","n","d"," ","m","e","n",".">>,
     \* "Still a lack of data on boys, women, men and girls."
     K_Equal |->
         <<"S","t","i","l","l"," ","a"," ","l","a","c","k"," ","o","f"," ","d","a","t","a",
           " ","o","n"," ","b","o","y","s",","," ","w","o","m","e","n",","," ","m","e","n",
           " ","a","n","d"," ","g","i","r","l","s",".">>,
     \* "Still a lack of data on men and boys."
     K_Chain |->
         <<"S","t","i","l","l"," ","a"," ","l","a","c","k"," ","o","f"," ","d","a","t","a",
           " ","o","n"," ","m","e","n"," ","a","n","d"," ","b","o","y","s",".">>,
     \* "We see a lack of data on adults, girls, boys, women, men, cohorts and infants."
     K_Below |->
         <<"W","e"," ","s","e","e"," ","a"," ","l","a","c","k"," ","o","f"," ","d","a","t",
           "a"," ","o","n"," ","a","d","u","l","t","s",","," ","g","i","r","l","s",","," ",
           "b","o","y","s",","," ","w","o","m","e","n",","," ","m","e","n",","," ","c","o",
           "h","o","r","t","s"," ","a","n","d"," ","i","n","f","a","n","t","s",".">>,
     \* "Robust data are needed on it by us."
     R_Plain |->
         <<"R","o","b","u","s","t"," ","d","a","t","a"," ","a","r","e"," ","n","e","e","d",
           "e","d"," ","o","n"," ","i","t"," ","b","y"," ","u","s",".">>,
     \* "Robust data are needed on it next."
     R_Next |->
         <<"R","o","b","u","s","t"," ","d","a","t","a"," ","a","r","e"," ","n","e","e","d",
           "e","d"," ","o","n"," ","i","t"," ","n","e","x","t",".">>,
     S_Many |->
         [i \in 1..196 |-> IF i % 2 = 1 THEN "a" ELSE " "] \o <<"l","a","c","k"," ","o","f"," ","d","a","t","a",".">>,
     S_Huge |->
         <<"W","e"," ","s","a","w"," ","a"," ","l","a","c","k"," ","o","f"," ","d","a","t","a"," ">>
         \o [i \in 1..480 |-> "z"] \o <<".">>]

\* the papers of the corpus: dictionaries with the keys analyze_research_gaps reads,
\* PyAbsent for a key the dictionary does not hold
Papers ==
    [\* abstract 'S_Future S_Two', tldr '', year '2021', citations 120
     P_Future |->
         [title |-> PyStr(<<"R","a","r","e"," ","d","a","t","a">>),
          abstract |-> PyStr(Sentence.S_Future \o <<" ">> \o Sentence.S_Two),
          tldr |-> PyStr(<<>>),
          year |-> PyStr(<<"2","0","2","1">>),
          citations |-> PyInt(120),
          doi |-> PyStr(<<"1","0",".","1","/","a","b","c">>),
          venue |-> PyStr(<<"N","a","t","u","r","e">>),
          keywords |-> PyStr(<<"A","I",","," ","D","a","t","a"," ",",",",","r","a","r","e"," ","d","a","t","a">>),
          ieee_authors |-> PyStr(<<"A","."," ","A","u","t","h","o","r">>)],
     \* abstract 'K_Seed K_Equal', year '2019', citations '12'
     P_Seed |->
         [title |-> PyStr(<<"C","o","h","o","r","t","s">>),
          abstract |-> PyStr(Sentence.K_Seed \o <<" ">> \o Sentence.K_Equal),
          tldr |-> PyAbsent,
          year |-> PyStr(<<"2","0","1","9">>),
          citations |-> PyStr(<<"1","2">>),
          doi |-> PyStr(<<"N","/","A">>),
          venue |-> PyStr(<<>>),
          keywords |-> PyStr(<<"d","a","t","a",","," ","A","I">>),
          ieee_authors |-> PyStr(<<"B","."," ","A","u","t","h","o","r">>)],
     \* abstract 'K_Chain K_Below', year '2023', citations 3
     P_Chain |->
         [title |-> PyStr(<<"T","r","i","a","l","s">>),
          abstract |-> PyStr(Sentence.K_Chain \o <<" ">> \o Sentence.K_Below),
          tldr |-> PyAbsent,
          year |-> PyStr(<<"2","0","2","3">>),
          citations |-> PyInt(3),
          doi |-> PyStr(<<"1","0",".","2","/","x","y","z">>),
          venue |-> PyStr(<<"L","a","n","c","e","t">>),
          keywords |-> PyAbsent,
          ieee_authors |-> PyStr(<<"A","."," ","A","u","t","h","o","r">>)],
     \* abstract 'S_Plain S_Short', year 2024, citations 'N/A'
     P_Preprint |->
         [title |-> PyStr(<<"P","r","e","p","r","i","n","t">>),
          abstract |-> PyStr(Sentence.S_Plain \o <<" ">> \o Sentence.S_Short),
          tldr |-> PyAbsent,
          year |-> PyInt(2024),
          citations |-> PyStr(<<"N","/","A">>),
          doi |-> PyAbsent,
          venue |-> PyStr(<<"a","r","X","i","v">>),
          keywords |-> PyAbsent,
          ieee_authors |-> PyStr(<<"C","."," ","A","u","t","h","o","r">>)],
     \* abstract '', tldr None, year '2020', citations 7
     P_NoText |->
         [title |-> PyStr(<<"N","o"," ","t","e","x","t">>),
          abstract |-> PyStr(<<>>),
          tldr |-> PyNone,
          year |-> PyStr(<<"2","0","2","0">>),
          citations |-> PyInt(7),
          doi |-> PyStr(<<"1","0",".","3","/","q","r","s">>),
          venue |-> PyAbsent,
          keywords |-> PyStr(<<"A","I",","," ","g","a","p","s">>),
          ieee_authors |-> PyStr(<<"D","."," ","A","u","t","h","o","r">>)],
     \* abstract 'S_Cost S_LongTerm', tldr 'S_Tiny', year 'n.d.', citations 0
     P_Packs |->
         [title |-> PyStr(<<"P","a","c","k","s">>),
          abstract |-> PyStr(Sentence.S_Cost \o <<" ">> \o Sentence.S_LongTerm),
          tldr |-> PyStr(Sentence.S_Tiny),
          year |-> PyStr(<<"n",".","d",".">>),
          citations |-> PyInt(0),
          doi |-> PyStr(<<"N","/","A">>),
          venue |-> PyStr(<<>>),
          keywords |-> PyStr(<<"c","o","s","t">>),
          ieee_authors |-> PyStr(<<"A","."," ","A","u","t","h","o","r">>)],
     \* tldr 'S_Many', abstract 'S_Huge', year '1999', citations 250
     P_Lengths |->
         [title |-> PyStr(<<"L","e","n","g","t","h","s">>),
          abstract |-> PyStr(Sentence.S_Huge),
          tldr |-> PyStr(Sentence.S_Many),
          year |-> PyStr(<<"1","9","9","9">>),
          citations |-> PyInt(250),
          doi |-> PyAbsent,
          venue |-> PyAbsent,
          keywords |-> PyAbsent,
          ieee_authors |-> PyStr(<<"E","."," ","A","u","t","h","o","r">>)],
     \* abstract 'R_Plain', year '2022', citations 10
     P_Robust |->
         [title |-> PyStr(<<"R","o","b","u","s","t">>),
          abstract |-> PyStr(Sentence.R_Plain),
          tldr |-> PyAbsent,
          year |-> PyStr(<<"2","0","2","2">>),
          citations |-> PyInt(10),
          doi |-> PyAbsent,
          venue |-> PyAbsent,
          keywords |-> PyAbsent,
          ieee_authors |-> PyStr(<<"F","."," ","A","u","t","h","o","r">>)],
     \* abstract 'S_Short', year 2021, citations 4
     P_IntYear |->
         [title |-> PyStr(<<"I","n","t"," ","y","e","a","r">>),
          abstract |-> PyStr(Sentence.S_Short),
          tldr |-> PyAbsent,
          year |-> PyInt(2021),
          citations |-> PyInt(4),
          doi |-> PyStr(<<"1","0",".","4","/","i","n","t">>),
          venue |-> PyAbsent,
          keywords |-> PyAbsent,
          ieee_authors |-> PyStr(<<"C","."," ","A","u","t","h","o","r">>)],
     \* tldr 'R_Next', year '2022', citations 5
     P_Next |->
         [title |-> PyStr(<<"N","e","x","t">>),
          abstract |-> PyAbsent,
          tldr |-> PyStr(Sentence.R_Next),
          year |-> PyStr(<<"2","0","2","2">>),
          citations |-> PyInt(5),
          doi |-> PyAbsent,
          venue |-> PyAbsent,
          keywords |-> PyAbsent,
          ieee_authors |-> PyStr(<<"G","."," ","A","u","t","h","o","r">>)]]

PaperPool == {Papers[name] : name \in DOMAIN Papers}

\* the queries: "", "Deep Learning", "clinical AI models"
Queries ==
    [Q_None |-> <<>>,
     Q_Tech |-> <<"D","e","e","p"," ","L","e","a","r","n","i","n","g">>,
     Q_Both |-> <<"c","l","i","n","i","c","a","l"," ","A","I"," ","m","o","d","e","l","s">>]

QuerySet == {Queries[name] : name \in DOMAIN Queries}

\* min_confidence in hundredths: 0.0, the default 0.3, 0.5 and 1.1
MinConfidenceSet == {0, 30, 50, 110}

\* text of line 442: f"{paper.get('tldr', '')} {paper.get('abstract', '')}"
paper_text(paper) ==
    py_str(py_get(paper.tldr, PyStr(<<>>))) \o <<" ">>
    \o py_str(py_get(paper.abstract, PyStr(<<>>)))

\* the sentences of the corpus as lines 443 and 453 cut them
CorpusSentences ==
    UNION {{str_strip(piece) : piece \in Range(split_sentences(paper_text(paper)))} :
           paper \in PaperPool}

----------------------------------------------------------------------------
(* gap_utils.py: calculate_semantic_similarity and cluster_similar_gaps *)

\* preprocess of line 279: the words that are no stopword and longer than 2
preprocess(text) ==
    LET stopwords ==
            {<<"t","h","e">>, <<"a">>, <<"a","n">>, <<"i","s">>, <<"a","r","e">>, <<"w","a","s">>,
             <<"w","e","r","e">>, <<"b","e">>, <<"b","e","e","n">>, <<"b","e","i","n","g">>,
             <<"h","a","v","e">>, <<"h","a","s">>, <<"h","a","d">>, <<"d","o">>, <<"d","o","e","s">>,
             <<"d","i","d">>, <<"w","i","l","l">>, <<"w","o","u","l","d">>, <<"c","o","u","l","d">>,
             <<"s","h","o","u","l","d">>, <<"m","a","y">>, <<"m","i","g","h","t">>, <<"m","u","s","t">>,
             <<"s","h","a","l","l">>, <<"c","a","n">>, <<"n","e","e","d">>, <<"d","a","r","e">>,
             <<"o","u","g","h","t">>, <<"u","s","e","d">>, <<"t","o">>, <<"o","f">>, <<"i","n">>,
             <<"f","o","r">>, <<"o","n">>, <<"w","i","t","h">>, <<"a","t">>, <<"b","y">>,
             <<"f","r","o","m">>, <<"a","s">>, <<"i","n","t","o">>, <<"t","h","r","o","u","g","h">>,
             <<"d","u","r","i","n","g">>, <<"b","e","f","o","r","e">>, <<"a","f","t","e","r">>,
             <<"a","b","o","v","e">>, <<"b","e","l","o","w">>, <<"b","e","t","w","e","e","n">>,
             <<"u","n","d","e","r">>, <<"a","g","a","i","n">>, <<"f","u","r","t","h","e","r">>,
             <<"t","h","e","n">>, <<"o","n","c","e">>, <<"a","n","d">>, <<"b","u","t">>, <<"i","f">>,
             <<"o","r">>, <<"b","e","c","a","u","s","e">>, <<"u","n","t","i","l">>,
             <<"w","h","i","l","e">>, <<"s","o">>, <<"t","h","a","n">>, <<"t","h","a","t">>,
             <<"t","h","i","s">>, <<"t","h","e","s","e">>, <<"t","h","o","s","e">>, <<"i">>,
             <<"m","e">>, <<"m","y">>, <<"m","y","s","e","l","f">>, <<"w","e">>, <<"o","u","r">>,
             <<"o","u","r","s">>, <<"o","u","r","s","e","l","v","e","s">>, <<"y","o","u">>,
             <<"y","o","u","r">>, <<"y","o","u","r","s">>, <<"i","t">>, <<"i","t","s">>,
             <<"i","t","s","e","l","f">>, <<"t","h","e","y">>, <<"t","h","e","m">>,
             <<"t","h","e","i","r">>, <<"t","h","e","i","r","s">>}
    IN {w \in Range(findall_words(str_lower(text))) : w \notin stopwords /\ Len(w) > 2}

\* get_bigrams of line 307: a bigram is the pair of two neighbouring words
get_bigrams(text) ==
    LET words == findall_words(str_lower(text))
    IN {<<words[i], words[i + 1]>> : i \in 1..(Len(words) - 1)}

\* max(a, b)
py_max(a, b) == IF a >= b THEN a ELSE b

\* calculate_semantic_similarity, in thousandths:
\* round(0.6 * inter / union + 0.4 * common / most, 3)
calculate_semantic_similarity(gap1, gap2) ==
    LET set1 == preprocess(gap1)
        set2 == preprocess(gap2)
    IN IF set1 = {} \/ set2 = {} THEN 0
       ELSE LET inter    == Cardinality(set1 \cap set2)
                union    == Cardinality(set1 \cup set2)
                bigrams1 == get_bigrams(gap1)
                bigrams2 == get_bigrams(gap2)
                paired   == bigrams1 # {} /\ bigrams2 # {}
                common   == IF paired THEN Cardinality(bigrams1 \cap bigrams2) ELSE 0
                most     == IF paired
                            THEN py_max(Cardinality(bigrams1), Cardinality(bigrams2))
                            ELSE 1
            IN py_round(1000 * (6 * inter * most + 4 * common * union), 10 * union * most)

\* calculate_semantic_similarity of every two sentences of the corpus, computed once
semantic_similarity ==
    [gap1 \in CorpusSentences, gap2 \in CorpusSentences |->
        calculate_semantic_similarity(gap1, gap2)]

\* int(x) of a Python value: ok is FALSE when it raises ValueError or TypeError
int_call(v) ==
    CASE v.t = "int" -> [ok |-> TRUE, n |-> v.n]
      [] v.t = "str" ->
            LET s      == str_strip(v.s)
                signed == Len(s) > 0 /\ s[1] \in {"-", "+"}
                digits == IF signed THEN Tail(s) ELSE s
            IN IF Len(digits) > 0 /\ \A i \in 1..Len(digits) : digits[i] \in DigitSet
               THEN [ok |-> TRUE,
                     n  |-> IF signed /\ s[1] = "-"
                            THEN -ParseDigits(digits) ELSE ParseDigits(digits)]
               ELSE [ok |-> FALSE, n |-> 0]
      [] v.t = "float" ->
            LET dot    == CHOOSE i \in 1..Len(v.s) : v.s[i] = "."
                whole  == SubSeq(v.s, 1, dot - 1)
            IN IF whole[1] = "-"
               THEN [ok |-> TRUE, n |-> -ParseDigits(Tail(whole))]
               ELSE [ok |-> TRUE, n |-> ParseDigits(whole)]
      [] OTHER -> [ok |-> FALSE, n |-> 0]

\* confidence * 100 as the float product comes out: 0.55 * 100 is
\* 55.00000000000001, one unit in the last place (2^-47) above 55, and every other
\* confidence the analyzer can return gives the whole number.  ulp counts the units
\* in the last place above the whole part.
times_hundred(confidence) == [whole |-> confidence, ulp |-> IF confidence = 55 THEN 1 ELSE 0]

\* citations + product in floats: a sum from -64 up to 64 keeps the excess of the
\* product, outside it is half a unit of the sum and is rounded away (to even)
float_add(citations, product) ==
    [whole |-> citations + product.whole,
     ulp   |-> IF product.ulp = 1 /\ citations + product.whole < 64
                  /\ citations + product.whole >= -64
               THEN 1 ELSE 0]

\* a < b for two such floats
float_less(a, b) == a.whole < b.whole \/ (a.whole = b.whole /\ a.ulp < b.ulp)

\* the key of line 360
representative_key(gap) ==
    float_add(int_call(py_get(gap.citations, PyInt(0))).n,
              times_hundred(gap.analysis.confidence))

\* a max that returns the last member no other member's key exceeds
py_max_by_key_last(gaps, cluster) ==
    CHOOSE k \in 1..Len(cluster) :
        /\ \A l \in 1..Len(cluster) :
              ~float_less(representative_key(gaps[cluster[k]]),
                          representative_key(gaps[cluster[l]]))
        /\ \A l \in (k + 1)..Len(cluster) :
              float_less(representative_key(gaps[cluster[l]]),
                         representative_key(gaps[cluster[k]]))

\* max(cluster, key=...): the first member no other member's key exceeds
py_max_by_key(gaps, cluster) ==
    CHOOSE k \in 1..Len(cluster) :
        /\ \A l \in 1..Len(cluster) :
              ~float_less(representative_key(gaps[cluster[k]]),
                          representative_key(gaps[cluster[l]]))
        /\ \A l \in 1..(k - 1) :
              float_less(representative_key(gaps[cluster[l]]),
                         representative_key(gaps[cluster[k]]))

\* the test of line 351 with > for >=
joins_above(sim, similarity_threshold) == sim > similarity_threshold

\* the test of line 351
joins(sim, similarity_threshold) == sim >= similarity_threshold

\* the members of a set of indices in increasing order
SortedSeq(S) == [k \in 1..Cardinality(S) |-> NthOf(S, k)]

RECURSIVE build_clusters_unvisited(_, _, _, _)
\* the loop without `visited[j] = True`: a member stays free to seed or to join
\* another cluster
build_clusters_unvisited(gaps, i, visited, similarity_threshold) ==
    IF i > Len(gaps) THEN <<>>
    ELSE LET joined == {j \in (i + 1)..Len(gaps) :
                           joins(semantic_similarity[gaps[i].gap_statement,
                                                     gaps[j].gap_statement],
                                 similarity_threshold)}
         IN <<<<i>> \o SortedSeq(joined)>>
            \o build_clusters_unvisited(gaps, i + 1, visited, similarity_threshold)

RECURSIVE build_clusters(_, _, _, _)
\* the loop of line 333 from index i on: a cluster is the sequence of the indices
\* of its members, the seed first
build_clusters(gaps, i, visited, similarity_threshold) ==
    IF i > Len(gaps) THEN <<>>
    ELSE IF i \in visited THEN build_clusters(gaps, i + 1, visited, similarity_threshold)
    ELSE LET joined == {j \in (i + 1)..Len(gaps) :
                           /\ j \notin visited
                           /\ joins(semantic_similarity[gaps[i].gap_statement,
                                                        gaps[j].gap_statement],
                                    similarity_threshold)}
         IN <<<<i>> \o SortedSeq(joined)>>
            \o build_clusters(gaps, i + 1, visited \cup {i} \cup joined,
                              similarity_threshold)

\* c['gap_statement'][:100] + '...'
preview(statement) ==
    SubSeq(statement, 1, IF Len(statement) < 100 THEN Len(statement) ELSE 100)
    \o <<".", ".", ".">>

\* cluster_similar_gaps, similarity_threshold in thousandths.  raised: int() of a
\* citations value raised in the key of line 361.
cluster_similar_gaps(gaps, similarity_threshold) ==
    IF Len(gaps) = 0 THEN [raised |-> FALSE, clusters |-> <<>>, representatives |-> <<>>]
    ELSE LET clusters == build_clusters(gaps, 1, {}, similarity_threshold)
         IN IF \E i \in 1..Len(gaps) : ~int_call(py_get(gaps[i].citations, PyInt(0))).ok
            THEN [raised |-> TRUE, clusters |-> clusters, representatives |-> <<>>]
            ELSE [raised   |-> FALSE,
                  clusters |-> clusters,
                  representatives |->
                      [c \in 1..Len(clusters) |->
                          LET cluster == clusters[c]
                              best    == gaps[cluster[py_max_by_key(gaps, cluster)]]
                          IN [best EXCEPT
                                 !.cluster_size = Len(cluster),
                                 !.cluster_members =
                                     [k \in 1..Len(cluster) |->
                                         preview(gaps[cluster[k]].gap_statement)]]]]

----------------------------------------------------------------------------
(* gap_utils.py: analyze_research_gaps *)

\* categorize_gap_detailed: <<parent_category>> or <<parent_category, detail>> for
\* "parent_category - detail"
categorize_gap_detailed(sentence, parent_category) ==
    LET sentence_lower == str_lower(sentence)
        temporal_words ==
            <<<<"l","o","n","g","-","t","e","r","m">>,
             <<"l","o","n","g","i","t","u","d","i","n","a","l">>, <<"f","u","t","u","r","e">>,
             <<"p","r","o","s","p","e","c","t","i","v","e">>>>
        population_words ==
            <<<<"p","o","p","u","l","a","t","i","o","n">>, <<"p","a","t","i","e","n","t">>,
             <<"p","a","r","t","i","c","i","p","a","n","t">>, <<"s","u","b","j","e","c","t">>,
             <<"d","e","m","o","g","r","a","p","h","i","c">>>>
        method_words ==
            <<<<"m","e","t","h","o","d">>, <<"a","p","p","r","o","a","c","h">>,
             <<"t","e","c","h","n","i","q","u","e">>, <<"m","e","t","h","o","d","o","l","o","g","y">>,
             <<"d","e","s","i","g","n">>>>
        scale_words ==
            <<<<"l","a","r","g","e","-","s","c","a","l","e">>,
             <<"s","m","a","l","l","-","s","c","a","l","e">>,
             <<"s","a","m","p","l","e"," ","s","i","z","e">>,
             <<"u","n","d","e","r","p","o","w","e","r","e","d">>>>
    IN IF any_contained(temporal_words, sentence_lower)
       THEN <<parent_category, "Temporal">>
       ELSE IF any_contained(population_words, sentence_lower)
       THEN <<parent_category, "Population-specific">>
       ELSE IF any_contained(method_words, sentence_lower)
       THEN <<parent_category, "Methodological">>
       ELSE IF any_contained(scale_words, sentence_lower)
       THEN <<parent_category, "Scale-related">>
       ELSE <<parent_category>>

RECURSIVE Counter(_, _)
\* Counter(keys), counted on top of counter: counter[item] += 1 for every item, a
\* Counter being kept as the sequence of its items in insertion order
Counter(counter, keys) ==
    IF Len(keys) = 0 THEN counter
    ELSE LET item == Head(keys)
             added == IF \E i \in 1..Len(counter) : counter[i].key = item
                      THEN [i \in 1..Len(counter) |->
                               IF counter[i].key = item
                               THEN [counter[i] EXCEPT !.count = @ + 1] ELSE counter[i]]
                      ELSE Append(counter, [key |-> item, count |-> 1])
         IN Counter(added, Tail(keys))

\* seq[:n]
Take(seq, n) == SubSeq(seq, 1, IF Len(seq) < n THEN Len(seq) ELSE n)

\* sorted(seq, key=..., reverse=True) for whole-number keys: the greater key first,
\* equal keys in the order of seq
sorted_by_key_reverse(seq, keys) ==
    LET rank(i) == Cardinality({j \in 1..Len(seq) : keys[j] > keys[i]})
                   + Cardinality({j \in 1..(i - 1) : keys[j] = keys[i]}) + 1
    IN [k \in 1..Len(seq) |-> seq[CHOOSE i \in 1..Len(seq) : rank(i) = k]]

\* a filter that lets every paper pass
has_any(p) == TRUE

\* the filter of line 437
has_text(p) == py_truthy(p.abstract) \/ py_truthy(p.tldr)

\* papers_with_text of line 437
papers_with_text(rs) == SelectSeq(rs, has_text)

\* a test that skips nothing
below_min_never(confidence, minimum) == FALSE

\* the test of line 464
below_min(confidence, minimum) == confidence < minimum

\* the loop without the break
matches_emitted_unbroken(hits) == SortedSeq(hits)

\* the matches the loop of line 458 emits an entry for: it leaves at the first
\* (line 487)
matches_emitted(hits) == IF hits = {} THEN <<>> ELSE <<NthOf(hits, 1)>>

\* gap_entry of lines 470-482; cluster_size 0 and no cluster_members stand for the
\* keys cluster_similar_gaps adds later.  pattern is the key of the matched entry;
\* the context keywords of line 468 are left out: list(set(...))[:5] follows the
\* hash order of the run and nothing reads them.
gap_entry(paper, sentence, entry, a) ==
    [title           |-> py_get(paper.title, PyStr(<<"U","n","k","n","o","w","n"," ","T","i","t","l","e">>)),
     gap_statement   |-> sentence,
     year            |-> py_get(paper.year, PyStr(<<"N","/","A">>)),
     category        |-> entry.category,
     subcategory     |-> categorize_gap_detailed(sentence, entry.category),
     citations       |-> py_get(paper.citations, PyInt(0)),
     doi             |-> py_get(paper.doi, PyStr(<<"N","/","A">>)),
     venue           |-> py_get(paper.venue, PyStr(<<"N","/","A">>)),
     analysis        |-> a,
     pattern         |-> entry.pattern,
     author          |-> py_get(paper.ieee_authors, PyStr(<<"U","n","k","n","o","w","n">>)),
     cluster_size    |-> 0,
     cluster_members |-> <<>>]

\* the body of the loop of line 452 for one sentence: the entries it appends
sentence_gaps(paper, piece, compiled_patterns, minimum) ==
    LET sentence == str_strip(piece)
    \* the test of line 454
    IN IF Len(str_split(sentence)) < 5 \/ Len(sentence) > 500 THEN <<>>
       ELSE LET a    == analyze_sentence(sentence)
                hits == {k \in 1..Len(compiled_patterns) :
                            /\ pattern_search(compiled_patterns[k].pattern, sentence)
                            /\ ~below_min(a.confidence, minimum)}
                kept == matches_emitted(hits)
            IN [k \in 1..Len(kept) |->
                   gap_entry(paper, sentence, compiled_patterns[kept[k]], a)]

RECURSIVE paper_gaps(_, _, _, _, _)
\* the loop of line 452 from sentence i on
paper_gaps(paper, sentences, i, compiled_patterns, minimum) ==
    IF i > Len(sentences) THEN <<>>
    ELSE sentence_gaps(paper, sentences[i], compiled_patterns, minimum)
         \o paper_gaps(paper, sentences, i + 1, compiled_patterns, minimum)

\* composite_score raises: int() of the citations (line 498) or of a year of digits
\* int() does not read (line 502), or year.isdigit() of a year that is no str
composite_raises(gap) ==
    \/ ~int_call(gap.citations).ok
    \/ gap.year.t # "str"
    \/ (str_isdigit(gap.year.s) /\ int_raises(gap.year.s))

\* composite_score of lines 497-507 as the float sum comes out, added from the left
composite_score(gap) ==
    LET citations     == int_call(gap.citations).n
        recency       == IF str_isdigit(gap.year.s) /\ ParseDigits(gap.year.s) >= 2020
                         THEN 50 ELSE 0
        cluster_bonus == gap.cluster_size * 10
    IN float_add(cluster_bonus,
                 float_add(recency,
                           float_add(citations, times_hundred(gap.analysis.confidence))))

\* sorted(clustered_gaps, key=composite_score, reverse=True)
sorted_gaps(clustered_gaps) ==
    LET score(i) == composite_score(clustered_gaps[i])
        rank(i) ==
            Cardinality({j \in 1..Len(clustered_gaps) : float_less(score(i), score(j))})
            + Cardinality({j \in 1..(i - 1) : score(j) = score(i)}) + 1
    IN [k \in 1..Len(clustered_gaps) |->
           clustered_gaps[CHOOSE i \in 1..Len(clustered_gaps) : rank(i) = k]]

\* extract_subcategories
extract_subcategories(gaps) == Counter(<<>>, [i \in 1..Len(gaps) |-> gaps[i].subcategory])

\* the dictionary of lines 523-542
gap_report(rs, q, gaps, clustered_gaps, t) ==
    LET gap_list == sorted_gaps(clustered_gaps)
        \* top_keywords of lines 512-517: (kw, count, share), the share in thousandths
        keyword_counts == Counter(<<>>, t.all_keywords)
        total_kw       == Len(t.all_keywords)
        common         ==
            Take(sorted_by_key_reverse(
                     keyword_counts,
                     [i \in 1..Len(keyword_counts) |-> keyword_counts[i].count]),
                 20)
        top_keywords   ==
            [i \in 1..Len(common) |->
                [kw    |-> common[i].key,
                 count |-> common[i].count,
                 share |-> py_round(1000 * common[i].count, py_max(total_kw, 1))]]
        \* recurring_gaps[:10] of lines 520-521 and 539
        gap_frequency  ==
            Counter(<<>>, [i \in 1..Len(gaps) |-> Take(gaps[i].gap_statement, 100)])
        recurring_gaps == Take(SelectSeq(gap_frequency, LAMBDA item : item.count > 1), 10)
        \* domain_scores of lines 397 and 410-418
        domain_scores  ==
            (IF domain_score(tech_terms, q) > 0
             THEN <<[key |-> "Technical/AI", count |-> domain_score(tech_terms, q)]>>
             ELSE <<>>)
            \o (IF domain_score(clinical_terms, q) > 0
                THEN <<[key |-> "Clinical/Medical",
                        count |-> domain_score(clinical_terms, q)]>>
                ELSE <<>>)
    IN [total_gaps_found             |-> Len(gaps),
        unique_gaps_after_clustering |-> Len(clustered_gaps),
        gap_list                     |-> gap_list,
        top_keywords                 |-> top_keywords,
        gap_categories               |-> t.gap_categories,
        subcategories                |-> extract_subcategories(gap_list),
        pattern_types_used           |-> pattern_types(q),
        domain_scores                |-> domain_scores,
        papers_analyzed              |-> Len(papers_with_text(rs)),
        sentences_analyzed           |-> t.total_sentences,
        temporal_distribution        |-> t.temporal_distribution,
        high_impact_gaps             |->
            Cardinality({i \in 1..Len(gap_list) : int_call(gap_list[i].citations).n >= 100}),
        high_confidence_gaps         |->
            Cardinality({i \in 1..Len(gap_list) : gap_list[i].analysis.confidence >= 70}),
        recurring_gaps               |-> recurring_gaps,
        authors_with_most_gaps       |->
            Take(sorted_by_key_reverse(t.author_gaps,
                                       [i \in 1..Len(t.author_gaps) |-> t.author_gaps[i].count]),
                 5)]

\* the variables of run_search and of deduplicate_and_score
search_vars == <<api_keys, config, current_year, submitted, tasks, returned, collected,
                 combined_results, successful_engines, failed_engines, total_api_calls,
                 final_list, alerts, record_keys>>

\* the body of the loop of line 440 for one paper: what it adds to found_gaps,
\* total_sentences, temporal_distribution and all_keywords
mine_paper(paper, q, minimum) ==
    LET sentences == split_sentences(paper_text(paper))
        \* the decade of lines 447-450: <<>> when the year is no run of digits
        year      == py_str(py_get(paper.year, PyStr(<<"u","n","k","n","o","w","n">>)))
        decade    == IF str_isdigit(year) THEN <<Take(year, 3) \o <<"0", "s">>>> ELSE <<>>
        \* the list of lines 490-491
        text      == IF py_truthy(paper.keywords) THEN paper.keywords.s ELSE <<>>
        pieces    == RunsOf(text, [i \in 1..Len(text) |-> text[i] # ","])
        kept      == SelectSeq(pieces, LAMBDA k : Len(str_strip(k)) > 0)
    IN [sentences |-> Len(sentences),
        gaps      |-> paper_gaps(paper, sentences, 1, all_patterns(q), minimum),
        decade    |-> decade,
        keywords  |-> [i \in 1..Len(kept) |-> str_lower(str_strip(kept[i]))]]

\* mine_paper of every paper of the corpus under every query and min_confidence,
\* computed once
mined_paper ==
    [paper \in PaperPool, q \in QuerySet, minimum \in MinConfidenceSet |->
        mine_paper(paper, q, minimum)]

\* one pass of the loop of line 440: the next paper of papers_with_text
MinePaper ==
    /\ pc = "mining"
    /\ mined < Len(papers_with_text(results))
    /\ LET m == mined_paper[papers_with_text(results)[mined + 1], query, min_confidence]
       IN /\ found_gaps' = found_gaps \o m.gaps
          /\ tallies' =
               [total_sentences       |-> tallies.total_sentences + m.sentences,
                temporal_distribution |-> Counter(tallies.temporal_distribution, m.decade),
                gap_categories        |->
                    Counter(tallies.gap_categories,
                            [i \in 1..Len(m.gaps) |-> m.gaps[i].category]),
                author_gaps           |->
                    Counter(tallies.author_gaps,
                            [i \in 1..Len(m.gaps) |-> m.gaps[i].author]),
                all_keywords          |-> tallies.all_keywords \o m.keywords]
    /\ mined' = mined + 1
    /\ UNCHANGED <<pc, results, query, min_confidence, report, analysis, search_vars, app_vars>>

\* lines 494-542 once the loop is through: cluster, sort and return the report, or
\* leave with the exception of cluster_similar_gaps or of composite_score
ClusterAndReport ==
    /\ pc = "mining"
    /\ mined = Len(papers_with_text(results))
    /\ \E clustered \in {cluster_similar_gaps(found_gaps, 650)} :
          IF clustered.raised
             \/ \E i \in 1..Len(clustered.representatives) :
                   composite_raises(clustered.representatives[i])
          THEN /\ pc' = "gap_raised"
               /\ report' = report
          ELSE /\ pc' = "reported"
               /\ report' = gap_report(results, query, found_gaps,
                                       clustered.representatives, tallies)
    /\ UNCHANGED <<results, query, min_confidence, mined, found_gaps, tallies, analysis,
                   search_vars, app_vars>>

GapInit ==
    /\ api_keys = [k \in {"s2"} |-> PyNone]
    /\ config = DefaultConfig
    /\ current_year = 2024
    /\ pc = "mining"
    /\ submitted = 0
    /\ tasks = [e \in EngineSet |-> "unsubmitted"]
    /\ returned = [e \in EngineSet |-> <<>>]
    /\ collected = {}
    /\ combined_results = <<>>
    /\ successful_engines = <<>>
    /\ failed_engines = <<>>
    /\ total_api_calls = 0
    /\ final_list = <<>>
    /\ alerts = <<>>
    /\ record_keys = <<>>
    /\ results \in SeqsUpTo(PaperPool, MaxPapers)
    /\ query \in QuerySet
    /\ min_confidence \in MinConfidenceSet
    /\ mined = 0
    /\ found_gaps = <<>>
    /\ tallies = [all_keywords |-> <<>>, gap_categories |-> <<>>,
                  temporal_distribution |-> <<>>, author_gaps |-> <<>>,
                  total_sentences |-> 0]
    /\ report = <<>>
    /\ analysis = <<>>
    /\ app_idle

SpecGap == GapInit /\ [][MinePaper \/ ClusterAndReport]_vars

----------------------------------------------------------------------------
(* gap_utils.py: _calculate_confidence called on its own *)

\* the features _calculate_confidence reads, as analyze_sentence hands them over
ConfidenceInit ==
    /\ api_keys = [k \in {"s2"} |-> PyNone]
    /\ config = DefaultConfig
    /\ current_year = 2024
    /\ pc = "analyze"
    /\ submitted = 0
    /\ tasks = [e \in EngineSet |-> "unsubmitted"]
    /\ returned = [e \in EngineSet |-> <<>>]
    /\ collected = {}
    /\ combined_results = <<>>
    /\ successful_engines = <<>>
    /\ failed_engines = <<>>
    /\ total_api_calls = 0
    /\ final_list = <<>>
    /\ alerts = <<>>
    /\ record_keys = <<>>
    /\ results = <<>>
    /\ query = <<>>
    /\ min_confidence = 30
    /\ mined = 0
    /\ found_gaps = <<>>
    /\ tallies = [all_keywords |-> <<>>, gap_categories |-> <<>>,
                  temporal_distribution |-> <<>>, author_gaps |-> <<>>,
                  total_sentences |-> 0]
    /\ report = <<>>
    /\ analysis \in [has_negation       : BOOLEAN,
                     has_uncertainty    : BOOLEAN,
                     is_future_oriented : BOOLEAN,
                     is_recommendation  : BOOLEAN,
                     is_limitation      : BOOLEAN,
                     sentence_length    : 0..MaxSentenceLength,
                     confidence         : {0}]
    /\ app_idle

\* line 197: analysis['confidence'] = self._calculate_confidence(analysis)
CalculateConfidence ==
    /\ pc = "analyze"
    /\ analysis' = [analysis EXCEPT !.confidence = calculate_confidence(analysis)]
    /\ pc' = "analyzed"
    /\ UNCHANGED <<results, query, min_confidence, mined, found_gaps, tallies, report,
                   search_vars, app_vars>>

SpecConfidence == ConfidenceInit /\ [][CalculateConfidence]_vars

----------------------------------------------------------------------------
(* gap_utils.py: identify_priority_gaps called on its own *)

\* the rubric of lines 669-701 that leaves the bonus for an explicit limitation out
priority_score_no_limitation(gap) ==
    LET n_cites  == int_call(py_get(gap.citations, PyInt(0))).n
        year_s   == py_str(py_get(gap.year, PyStr(<<>>)))
    IN (IF n_cites >= 100 THEN 3 ELSE IF n_cites >= 50 THEN 2 ELSE 0)
       + (IF gap.analysis.confidence >= 80 THEN 2 ELSE 0)
       + (IF str_isdigit(year_s) /\ ParseDigits(year_s) >= 2022 THEN 2 ELSE 0)
       + (IF gap.cluster_size > 1 THEN gap.cluster_size ELSE 0)

\* score of lines 669-701 for one gap, the confidence in hundredths
priority_score(gap) ==
    LET n_cites  == int_call(py_get(gap.citations, PyInt(0))).n
        year_s   == py_str(py_get(gap.year, PyStr(<<>>)))
    IN (IF n_cites >= 100 THEN 3 ELSE IF n_cites >= 50 THEN 2 ELSE 0)
       + (IF gap.analysis.confidence >= 80 THEN 2 ELSE 0)
       + (IF str_isdigit(year_s) /\ ParseDigits(year_s) >= 2022 THEN 2 ELSE 0)
       + (IF gap.cluster_size > 1 THEN gap.cluster_size ELSE 0)
       + (IF gap.analysis.is_limitation THEN 1 ELSE 0)

\* identify_priority_gaps for top_n >= 0.  raised: int() of a citations value or of
\* a year of digits raised (lines 672 and 688).  The entry of the result keeps the
\* gap under `gap` beside its priority_score; priority_reasons is left out.
identify_priority_gaps(gap_data, n) ==
    LET gaps == gap_data.gap_list
    IN IF \E i \in 1..Len(gaps) :
              \/ ~int_call(py_get(gaps[i].citations, PyInt(0))).ok
              \/ LET year_s   == py_str(py_get(gaps[i].year, PyStr(<<>>)))
                 IN str_isdigit(year_s) /\ int_raises(year_s)
       THEN [raised |-> TRUE, result |-> <<>>]
       ELSE LET priority_scores ==
                    [i \in 1..Len(gaps) |->
                        [gap |-> gaps[i], priority_score |-> priority_score(gaps[i])]]
                sorted ==
                    sorted_by_key_reverse(
                        priority_scores,
                        [i \in 1..Len(gaps) |-> priority_scores[i].priority_score])
            IN [raised |-> FALSE, result |-> Take(sorted, n)]

\* the greatest top_n identify_priority_gaps is called with
MaxTopN == 3

\* clustered gaps of a report, with the keys composite_score and the rubric read
PriorityPool ==
    LET gap(statement, citations, confidence, year, cluster_size, limitation) ==
            [gap_statement |-> statement,
             citations     |-> citations,
             year          |-> PyStr(year),
             cluster_size  |-> cluster_size,
             analysis      |-> [confidence |-> confidence, is_limitation |-> limitation]]
    IN {gap("g1", PyInt(120), 80, <<"2","0","2","3">>, 1, FALSE),
        gap("g2", PyInt(50), 70, <<"2","0","2","1">>, 2, TRUE),
        gap("g3", PyInt(99), 80, <<"2","0","2","2">>, 1, FALSE),
        gap("g4", PyStr(<<"1","2">>), 55, <<"n",".","d",".">>, 3, FALSE),
        gap("g5", PyInt(49), 75, <<"2","0","2","1">>, 1, TRUE),
        gap("g6", PyInt(100), 40, <<"1","9","9","9">>, 1, FALSE),
        gap("g7", PyInt(0), 100, <<"2","0","2","2">>, 1, TRUE),
        gap("g8", PyInt(0), 40, <<"2","0","2","0">>, 1, FALSE)}

\* gap_data is a report: its gap_list holds different gaps in the order of their
\* composite score (line 507)
PriorityInit ==
    /\ api_keys = [k \in {"s2"} |-> PyNone]
    /\ config = DefaultConfig
    /\ current_year = 2024
    /\ pc = "prioritise"
    /\ submitted = 0
    /\ tasks = [e \in EngineSet |-> "unsubmitted"]
    /\ returned = [e \in EngineSet |-> <<>>]
    /\ collected = {}
    /\ combined_results = <<>>
    /\ successful_engines = <<>>
    /\ failed_engines = <<>>
    /\ total_api_calls = 0
    /\ final_list = <<>>
    /\ alerts = <<>>
    /\ record_keys = <<>>
    /\ results = <<>>
    /\ query = <<>>
    /\ min_confidence = 30
    /\ mined = 0
    /\ found_gaps = <<>>
    /\ tallies = [all_keywords |-> <<>>, gap_categories |-> <<>>,
                  temporal_distribution |-> <<>>, author_gaps |-> <<>>,
                  total_sentences |-> 0]
    /\ report \in {[gap_list |-> sorted_gaps(gaps)] :
                      gaps \in {s \in SeqsUpTo(PriorityPool, MaxLen) :
                                   \A i, j \in 1..Len(s) : i # j => s[i] # s[j]}}
    /\ analysis = <<>>
    /\ top_n \in 0..MaxTopN
    /\ priority_gaps = <<>>
    /\ session_state = [step |-> "input", is_processing |-> FALSE,
                        sources |-> 0, rejected_sources |-> 0]
    /\ stage_calls = <<>>
    /\ authors_str = <<>>
    /\ formatted = <<>>

IdentifyPriorityGaps ==
    /\ pc = "prioritise"
    /\ \E out \in {identify_priority_gaps(report, top_n)} :
          /\ priority_gaps' = out.result
          /\ pc' = IF out.raised THEN "priority_raised" ELSE "prioritised"
    /\ UNCHANGED <<search_vars, gap_vars, top_n, session_state, stage_calls, authors_str,
                   formatted>>

SpecPriority == PriorityInit /\ [][IdentifyPriorityGaps]_vars

----------------------------------------------------------------------------
(* streamlit_app.py: execute_research_pipeline *)

\* the most sources, kept and rejected together, web research comes back with
MaxSources == 6

\* the five stages in the order of lines 1263-1301
Stages == <<"topic analysis", "web research", "draft", "critique", "refinement">>

\* a minimum of sources that is never missed
too_few_never(n) == FALSE

\* the test of line 1282
too_few(n) == n < 3

PipelineInit ==
    /\ api_keys = [k \in {"s2"} |-> PyNone]
    /\ config = DefaultConfig
    /\ current_year = 2024
    /\ pc = "pipeline"
    /\ submitted = 0
    /\ tasks = [e \in EngineSet |-> "unsubmitted"]
    /\ returned = [e \in EngineSet |-> <<>>]
    /\ collected = {}
    /\ combined_results = <<>>
    /\ successful_engines = <<>>
    /\ failed_engines = <<>>
    /\ total_api_calls = 0
    /\ final_list = <<>>
    /\ alerts = <<>>
    /\ record_keys = <<>>
    /\ gap_idle
    /\ app_idle

\* lines 1251-1261: the flags, and the check of API_AVAILABLE.  The exception of line
\* 1258 (or of form_data without its keys) leads to the except clause.
StartPipeline ==
    /\ pc = "pipeline"
    /\ session_state' = [session_state EXCEPT !.is_processing = TRUE,
                                               !.step = "processing"]
    /\ \E API_AVAILABLE \in BOOLEAN : pc' = IF API_AVAILABLE THEN "stage" ELSE "except"
    /\ UNCHANGED <<search_vars, gap_vars, top_n, priority_gaps, stage_calls, authors_str,
                   formatted>>

\* the call of the next stage (lines 1263-1301): it returns or it raises.  Web
\* research returns its sources and the rejected ones, and line 1282 raises when the
\* sources are too few.
CallStage ==
    /\ pc = "stage"
    /\ Len(stage_calls) < 4
    /\ stage_calls' = Append(stage_calls, Stages[Len(stage_calls) + 1])
    /\ \/ /\ pc' = "except"
          /\ UNCHANGED session_state
       \/ /\ Len(stage_calls) # 1
          /\ pc' = "stage"
          /\ UNCHANGED session_state
       \/ /\ Len(stage_calls) = 1
          /\ \E sources \in 0..MaxSources, rejected \in 0..MaxSources :
                /\ sources + rejected <= MaxSources
                /\ session_state' = [session_state EXCEPT !.sources = sources,
                                                          !.rejected_sources = rejected]
                /\ pc' = IF too_few(sources) THEN "except" ELSE "stage"
    /\ UNCHANGED <<search_vars, gap_vars, top_n, priority_gaps, authors_str, formatted>>

\* stage 5 and the end of the try block (lines 1300-1317): refine_draft_simple and
\* generate_html_report_optimized return and step becomes 'complete', or one of them
\* raises
LastStage ==
    /\ pc = "stage"
    /\ Len(stage_calls) = 4
    /\ stage_calls' = Append(stage_calls, Stages[5])
    /\ \/ /\ pc' = "except"
          /\ UNCHANGED session_state
       \/ /\ pc' = "finally"
          /\ session_state' = [session_state EXCEPT !.step = "complete"]
    /\ UNCHANGED <<search_vars, gap_vars, top_n, priority_gaps, authors_str, formatted>>

\* except Exception (lines 1326-1331)
Except ==
    /\ pc = "except"
    /\ session_state' = [session_state EXCEPT !.step = "error"]
    /\ pc' = "finally"
    /\ UNCHANGED <<search_vars, gap_vars, top_n, priority_gaps, stage_calls, authors_str,
                   formatted>>

\* finally (lines 1332-1333), and the return
Finally ==
    /\ pc = "finally"
    /\ session_state' = [session_state EXCEPT !.is_processing = FALSE]
    /\ pc' = "returned"
    /\ UNCHANGED <<search_vars, gap_vars, top_n, priority_gaps, stage_calls, authors_str,
                   formatted>>

SpecPipeline ==
    PipelineInit /\ [][StartPipeline \/ CallStage \/ LastStage \/ Except \/ Finally]_vars

----------------------------------------------------------------------------
(* streamlit_app.py: format_authors_ieee *)

\* INSTITUTIONAL_NAMES
INSTITUTIONAL_NAMES ==
    {<<"r","e","s","e","a","r","c","h"," ","t","e","a","m">>, <<"a","u","t","h","o","r","s">>, <<"c","o","n","t","r","i","b","u","t","o","r","s">>, <<"e","d","i","t","o","r","s">>, <<"s","t","a","f","f">>,
     <<"i","e","e","e"," ","a","u","t","h","o","r","s">>, <<"a","c","m"," ","a","u","t","h","o","r","s">>, <<"a","r","x","i","v"," ","c","o","n","t","r","i","b","u","t","o","r","s">>, <<"n","a","t","u","r","e"," ","a","u","t","h","o","r","s">>,
     <<"a","c","a","d","e","m","i","c"," ","p","u","b","l","i","c","a","t","i","o","n"," ","a","u","t","h","o","r","s">>, <<"u","n","i","v","e","r","s","i","t","y">>, <<"i","n","s","t","i","t","u","t","e">>,
     <<"l","a","b","o","r","a","t","o","r","y">>, <<"o","r","g","a","n","i","z","a","t","i","o","n">>, <<"c","o","n","s","o","r","t","i","u","m">>, <<"g","r","o","u","p">>, <<"c","o","m","m","i","t","t","e","e">>,
     <<"d","e","p","a","r","t","m","e","n","t">>}

\* is_institutional_name(name)
is_institutional_name(name) ==
    LET name_lower == str_strip(str_lower(name))
        endswith(suffix) ==
            /\ Len(name_lower) >= Len(suffix)
            /\ SubSeq(name_lower, Len(name_lower) - Len(suffix) + 1, Len(name_lower)) = suffix
    IN \/ name_lower \in INSTITUTIONAL_NAMES
       \/ \E suffix \in {<<"a","u","t","h","o","r","s">>, <<"c","o","n","t","r","i","b","u","t","o","r","s">>, <<"t","e","a","m">>, <<"s","t","a","f","f">>,
                         <<"e","d","i","t","o","r","s">>, <<"g","r","o","u","p">>} : endswith(suffix)

\* format_author_ieee(name)
format_author_ieee(name) ==
    LET stripped == str_strip(name)
        parts    == str_split(stripped)
        upper(c) == IF c \in LowerSet
                    THEN UpperChars[CHOOSE i \in DOMAIN LowerChars : LowerChars[i] = c]
                    ELSE c
        surname  == parts[Len(parts)]
        initials == [k \in 1..(Len(parts) - 1) |-> <<upper(parts[k][1]), ".">>]
        \* ' '.join(initials)
        joined[k \in 0..Len(initials)] ==
            IF k = 0 THEN <<>>
            ELSE IF k = 1 THEN initials[1]
            ELSE joined[k - 1] \o <<" ">> \o initials[k]
    IN IF stripped = <<>> THEN stripped
       \* re.match(r'^[A-Z]\.\s', name)
       ELSE IF /\ Len(stripped) >= 3
               /\ stripped[1] \in UpperSet
               /\ stripped[2] = "."
               /\ IsSpaceChar(stripped[3]) THEN stripped
       ELSE IF Len(parts) = 1 THEN parts[1]
       ELSE joined[Len(initials)] \o <<" ">> \o surname

RECURSIVE split_authors(_, _, _)
\* re.split(r',\s*|\s+and\s+', s) from index i on, the piece under way having
\* started at index start
split_authors(s, i, start) ==
    IF i > Len(s) THEN <<SubSeq(s, start, Len(s))>>
    ELSE IF s[i] = ","
    THEN <<SubSeq(s, start, i - 1)>>
             \o split_authors(s, FirstKept(s, i + 1), FirstKept(s, i + 1))
    ELSE LET a == FirstKept(s, i)
         IN IF /\ IsSpaceChar(s[i])
               /\ a + 3 <= Len(s)
               /\ SubSeq(s, a, a + 2) = <<"a","n","d">>
               /\ IsSpaceChar(s[a + 3])
            THEN <<SubSeq(s, start, i - 1)>>
                     \o split_authors(s, FirstKept(s, a + 3), FirstKept(s, a + 3))
            ELSE split_authors(s, i + 1, start)

\* the list `authors` of format_authors_ieee: the pieces, stripped, the empty
\* ones left out
author_names(s) ==
    LET pieces == split_authors(s, 1, 1)
    IN SelectSeq([k \in 1..Len(pieces) |-> str_strip(pieces[k])], LAMBDA a : a # <<>>)

\* one name of the list `formatted`
format_name(a) == IF is_institutional_name(a) THEN a ELSE format_author_ieee(a)

\* the last branch of format_authors_ieee on the list `formatted`
format_list(names) ==
    LET n == Len(names)
        listed[k \in 0..n] ==
            IF k = 0 THEN <<>>
            ELSE IF k = 1 THEN names[1]
            ELSE listed[k - 1] \o <<","," ">> \o names[k]
    IN IF n = 1 THEN names[1]
       ELSE IF n = 2 THEN names[1] \o <<" ","a","n","d"," ">> \o names[2]
       ELSE listed[n - 1] \o <<","," ","a","n","d"," ">> \o names[n]

\* `'et al' in authors_str.lower()`
has_et_al(s) == contains(str_lower(s), <<"e","t"," ","a","l">>)

\* format_authors_ieee(authors_str)
format_authors_ieee(s) ==
    LET \* re.match(r'^([^,]+?)(?:\s+et\s+al\.?)', s, re.IGNORECASE): the ends k
        \* of group 1 at which the rest of the pattern matches
        low      == str_lower(s)
        et       == [k \in 1..Len(s) |-> FirstKept(s, k + 1)]
        al       == [k \in 1..Len(s) |-> FirstKept(s, et[k] + 2)]
        ends     == {k \in 1..Len(s) :
                        /\ \A j \in 1..k : s[j] # ","
                        /\ k + 1 <= Len(s) /\ IsSpaceChar(s[k + 1])
                        /\ et[k] + 2 <= Len(s)
                        /\ SubSeq(low, et[k], et[k] + 1) = <<"e","t">>
                        /\ IsSpaceChar(s[et[k] + 2])
                        /\ al[k] + 1 <= Len(s)
                        /\ SubSeq(low, al[k], al[k] + 1) = <<"a","l">>}
        group1   == SubSeq(s, 1, CHOOSE k \in ends : \A j \in ends : k <= j)
        names    == author_names(s)
    IN IF s = <<>> THEN <<"R","e","s","e","a","r","c","h"," ","T","e","a","m">>
       ELSE IF is_institutional_name(s) THEN s
       ELSE IF has_et_al(s)
       THEN IF ends # {}
            THEN format_name(str_strip(group1)) \o <<" ","e","t"," ","a","l",".">>
            ELSE s
       ELSE IF names = <<>> THEN <<"R","e","s","e","a","r","c","h"," ","T","e","a","m">>
       ELSE format_list([k \in 1..Len(names) |-> format_name(names[k])])

\* the author strings format_authors_ieee is called on
Authors ==
    [A_Person      |-> <<"J","o","h","n"," ","S","m","i","t","h">>,
     A_Janet       |-> <<"J","a","n","e","t"," ","A","l","l","e","n">>,
     A_Institution |-> <<"I","E","E","E"," ","A","u","t","h","o","r","s">>,
     A_EtAl        |-> <<"j","o","h","n"," ","d","a","v","i","d"," ","s","m","i","t","h"," ","e","t"," ","a","l",".">>]

RECURSIVE authors_joined(_, _)
\* the names of a list joined by the separators of a list one shorter
authors_joined(names, seps) ==
    IF Len(names) = 0 THEN <<>>
    ELSE IF Len(names) = 1 THEN names[1]
    ELSE names[1] \o seps[1] \o authors_joined(Tail(names), Tail(seps))

FormatInit ==
    /\ api_keys = [k \in {"s2"} |-> PyNone]
    /\ config = DefaultConfig
    /\ current_year = 2024
    /\ pc = "format"
    /\ submitted = 0
    /\ tasks = [e \in EngineSet |-> "unsubmitted"]
    /\ returned = [e \in EngineSet |-> <<>>]
    /\ collected = {}
    /\ combined_results = <<>>
    /\ successful_engines = <<>>
    /\ failed_engines = <<>>
    /\ total_api_calls = 0
    /\ final_list = <<>>
    /\ alerts = <<>>
    /\ record_keys = <<>>
    /\ gap_idle
    /\ top_n = 0
    /\ priority_gaps = <<>>
    /\ session_state = [step |-> "input", is_processing |-> FALSE,
                        sources |-> 0, rejected_sources |-> 0]
    /\ stage_calls = <<>>
    /\ formatted = <<>>
    /\ \E n \in 0..MaxLen :
           \E names \in [1..n -> {Authors[a] : a \in DOMAIN Authors}] :
               \E seps \in [1..(n - 1) -> {<<","," ">>, <<" ","a","n","d"," ">>, <<",">>}] :
                   authors_str = authors_joined(names, seps)

\* one call format_authors_ieee(authors_str)
FormatAuthors ==
    /\ pc = "format"
    /\ formatted' = format_authors_ieee(authors_str)
    /\ pc' = "formatted"
    /\ UNCHANGED <<search_vars, gap_vars, top_n, priority_gaps, session_state,
                   stage_calls, authors_str>>

SpecFormat == FormatInit /\ [][FormatAuthors]_vars

----------------------------------------------------------------------------
(* Properties of deduplicate_and_score, checked under SpecDedup *)

Done == pc = "done"

Inputs == 1..Len(combined_results)

Outputs == 1..Len(final_list)

\* the input records kept under identity k
RecordsOf(k) == {i \in Inputs : record_keys[i] = k}

\* input records i and j ended in one aggregated entry
Collapsed(i, j) ==
    \E e \in Outputs : final_list[e].key = record_keys[i] /\ final_list[e].key = record_keys[j]

C1_NormDoi(r) == IF r.doi.t = "str" THEN str_strip(str_lower(r.doi.s)) ELSE <<>>

C1_Informative(d) == d # <<"n","/","a">> /\ Len(d) > 5

C1_HasDoi(r) == C1_Informative(C1_NormDoi(r))

C1_NormTitle(r) == SelectSeq(str_strip(str_lower(r.title.s)), IsAlnumChar)

\* C1: records with the same informative DOI (lowercased, trimmed) collapse whatever
\* their titles; records without an informative DOI collapse when their normalised
\* titles are equal; records with different informative DOIs never collapse.
C1_IdentityPrecedence ==
    Done =>
        \A i, j \in Inputs :
            i < j =>
                LET a   == combined_results[i]
                    b   == combined_results[j]
                    da  == C1_NormDoi(a)
                    db  == C1_NormDoi(b)
                    hda == C1_Informative(da)
                    hdb == C1_Informative(db)
                IN /\ (hda /\ hdb /\ da = db) => Collapsed(i, j)
                   /\ (~hda /\ ~hdb /\ C1_NormTitle(a) = C1_NormTitle(b)) => Collapsed(i, j)
                   /\ (hda /\ hdb /\ da # db) => ~Collapsed(i, j)

\* one call in which each of the three cases of C1 happens
C1_Witness ==
    /\ Done
    /\ \E i, j \in Inputs :
          LET a == combined_results[i]
              b == combined_results[j]
          IN /\ C1_HasDoi(a) /\ C1_HasDoi(b) /\ a.doi # b.doi
             /\ C1_NormDoi(a) = C1_NormDoi(b)
             /\ C1_NormTitle(a) # C1_NormTitle(b)
             /\ Collapsed(i, j)
    /\ \E i, j \in Inputs :
          LET a == combined_results[i]
              b == combined_results[j]
          IN /\ ~C1_HasDoi(a) /\ ~C1_HasDoi(b) /\ a.title # b.title
             /\ C1_NormTitle(a) = C1_NormTitle(b)
             /\ Collapsed(i, j)
    /\ \E i, j \in Inputs :
          LET a == combined_results[i]
              b == combined_results[j]
          IN /\ C1_HasDoi(a) /\ C1_HasDoi(b)
             /\ C1_NormDoi(a) # C1_NormDoi(b)
             /\ C1_NormTitle(a) = C1_NormTitle(b)
             /\ ~Collapsed(i, j)

\* s is written with the decimal digits 0..9 only
DecimalDigitsOnly(s) == Len(s) > 0 /\ \A i \in 1..Len(s) : s[i] \in DigitSet

C3_Coerce(v) ==
    CASE v.t = "str" /\ DecimalDigitsOnly(v.s) -> ParseDigits(v.s)
      [] v.t = "int" /\ v.n >= 0               -> v.n
      [] OTHER                                 -> 0

\* C3: citations_int of an aggregated paper is the maximum of the coerced counts of
\* the input records of its identity (digit-only string or non-negative int: its
\* value; anything else: 0), hence an integer >= 0.
C3_CitationsMax ==
    Done =>
        \A e \in Outputs :
            LET vals == {C3_Coerce(combined_results[i].citations) :
                            i \in RecordsOf(final_list[e].key)}
                c    == final_list[e].p.citations_int
            IN c \in vals /\ (\A v \in vals : v <= c) /\ c >= 0

\* a later duplicate raised the count of an entry, and a negative int was coerced
C3_Witness ==
    /\ Done
    /\ \E e \in Outputs :
          final_list[e].p.citations_int >
              C3_Coerce(combined_results[final_list[e].first].citations)
    /\ \E i \in Inputs :
          combined_results[i].citations.t = "int" /\ combined_results[i].citations.n < 0

\* the alerts printed for identity k
C4_AlertsFor(k) == {a \in 1..Len(alerts) : alerts[a].key = k}

\* the input record that brings the count of identity k to n
C4_Crossing(k, n) ==
    {i \in RecordsOf(k) : Cardinality({j \in RecordsOf(k) : j <= i}) = n}

C4_OncePerIdentity ==
    \A e \in Outputs :
        LET k == final_list[e].key
        IN IF final_list[e].p.source_count >= config.high_consensus_threshold
           THEN /\ Cardinality(C4_AlertsFor(k)) = 1
                /\ \A a \in C4_AlertsFor(k) :
                      alerts[a].at \in C4_Crossing(k, config.high_consensus_threshold)
           ELSE C4_AlertsFor(k) = {}

\* C4 as stated: with alerts enabled the alert of an identity is printed exactly once,
\* at the record that brings source_count to the threshold, for every threshold >= 1.
C4_Original ==
    (Done /\ config.enable_alerts /\ config.high_consensus_threshold >= 1)
        => C4_OncePerIdentity

\* C4 amended: the same for every threshold >= 2; with threshold 1 nothing is printed.
C4_AlertOnce ==
    /\ (Done /\ config.enable_alerts /\ config.high_consensus_threshold >= 2)
          => C4_OncePerIdentity
    /\ (Done /\ config.high_consensus_threshold = 1) => alerts = <<>>

\* an identity crossed the threshold and a later duplicate was folded in after that
C4_Witness ==
    /\ Done
    /\ config.enable_alerts
    /\ config.high_consensus_threshold >= 2
    /\ \E e \in Outputs :
          /\ final_list[e].p.source_count > config.high_consensus_threshold
          /\ Cardinality(C4_AlertsFor(final_list[e].key)) = 1

\* the year of a paper when it is written with four decimal digits, else -1
C5_FourDigitYear(p) ==
    CASE p.year.t = "int" /\ p.year.n >= 1000 /\ p.year.n <= 9999 -> p.year.n
      [] p.year.t = "str" /\ Len(p.year.s) = 4 /\ DecimalDigitsOnly(p.year.s)
                                                 -> ParseDigits(p.year.s)
      [] OTHER -> -1

C5_Eligible(p) ==
    /\ config.recency_boost
    /\ C5_FourDigitYear(p) >= 1900
    /\ C5_FourDigitYear(p) <= 2100
    /\ C5_FourDigitYear(p) >= current_year - config.recency_years

\* B in tenths
C5_Base(p) == p.source_count * config.source_weight + p.citations_int * config.citation_weight

\* r = floor(num / den)
C5_IsFloor(r, num, den) == r * den <= num /\ num < (r + 1) * den

C5_Boosted(p) == C5_IsFloor(p.relevance_score, C5_Base(p) * config.recency_multiplier, 100)

C5_Plain(p) == C5_IsFloor(p.relevance_score, C5_Base(p), 10)

\* C5: relevance_score = floor(B * M), B = source_count * source_weight +
\* citations_int * citation_weight, M = recency_multiplier when recency_boost is on and
\* the year is a 4-digit number in [1900, 2100] not older than current_year -
\* recency_years, else 1; a paper of current_year gets the multiplier, a paper of
\* current_year - recency_years - 1 does not.
C5_RelevanceScore ==
    Done =>
        \A e \in Outputs :
            LET p == final_list[e].p
            IN /\ IF C5_Eligible(p) THEN C5_Boosted(p) ELSE C5_Plain(p)
               /\ (config.recency_boost /\ C5_FourDigitYear(p) = current_year)
                     => (C5_Boosted(p) /\ ~C5_Plain(p))
               /\ C5_FourDigitYear(p) = current_year - config.recency_years - 1
                     => (C5_Plain(p) /\ ~C5_Boosted(p))

\* a paper of the current year, one just outside the window and one whose B has a
\* fractional part, in one call with the boost on
C5_Witness ==
    /\ Done
    /\ config.recency_boost
    /\ \E e \in Outputs : C5_FourDigitYear(final_list[e].p) = current_year
    /\ \E e \in Outputs :
          C5_FourDigitYear(final_list[e].p) = current_year - config.recency_years - 1
    /\ \E e \in Outputs : C5_Base(final_list[e].p) % 10 # 0

\* the input and the configuration of the end-to-end scenario
C6_Scenario ==
    /\ Done
    /\ combined_results = <<Records.RecA, Records.RecB, Records.RecC>>
    /\ current_year = 2024
    /\ config.source_weight = 1000
    /\ config.citation_weight = 10
    /\ config.recency_boost
    /\ config.recency_years = 5
    /\ config.recency_multiplier = 12

C6_MergedFirst ==
    /\ Len(final_list) = 2
    /\ final_list[1].key = <<"1","0",".","1","/","a","b","c">>
    /\ final_list[1].p.title = PyStr(Titles.T_DeepLearning)
    /\ final_list[1].p.source_count = 2
    /\ final_list[1].p.citations_int = 12
    /\ final_list[1].p.relevance_score = 254
    /\ final_list[2].p.title = PyStr(Titles.T_Unrelated)
    /\ final_list[2].p.source_count = 1
    /\ final_list[2].p.citations_int = 0

\* C6 as stated: the scenario yields the merged entry (source_count 2, citations_int
\* 12, score 254) first and 'Unrelated Paper' (source_count 1, citations_int 0) not
\* recency-boosted with score 100.
C6_Original ==
    C6_Scenario =>
        /\ C6_MergedFirst
        /\ ~final_list[2].p.recency_boosted
        /\ final_list[2].p.relevance_score = 100

\* C6 amended: as stated, but 'Unrelated Paper' (2019 = 2024 - 5) is recency-boosted
\* and its score is floor(100 * 1.2) = 120.
C6_EndToEnd ==
    C6_Scenario =>
        /\ C6_MergedFirst
        /\ final_list[2].p.recency_boosted
        /\ final_list[2].p.relevance_score = 120

C6_Witness == C6_Scenario /\ Len(final_list) = 2

\* the first input record of identity k
FirstSeen(k) == CHOOSE i \in RecordsOf(k) : \A j \in RecordsOf(k) : i <= j

\* C10: the returned list is in non-increasing relevance_score, and entries of equal
\* score are in the order in which their identities were first seen in the input.
C10_StableDescending ==
    Done =>
        \A i, j \in Outputs :
            i < j =>
                /\ final_list[i].p.relevance_score >= final_list[j].p.relevance_score
                /\ final_list[i].p.relevance_score = final_list[j].p.relevance_score
                      => FirstSeen(final_list[i].key) < FirstSeen(final_list[j].key)

\* a result with a tie, with a strict descent, and with an entry moved ahead of an
\* identity seen before it
C10_Witness ==
    /\ Done
    /\ \E i, j \in Outputs :
          i < j /\ final_list[i].p.relevance_score = final_list[j].p.relevance_score
    /\ \E i, j \in Outputs :
          /\ i < j
          /\ final_list[i].p.relevance_score > final_list[j].p.relevance_score
          /\ FirstSeen(final_list[i].key) > FirstSeen(final_list[j].key)

\* the citations value is neither a decimal-digit-only str nor an int >= 0
C11_BadCitations(r) ==
    ~ \/ r.citations.t = "str" /\ DecimalDigitsOnly(r.citations.s)
      \/ r.citations.t = "int" /\ r.citations.n >= 0
      \/ r.citations.t = "absent"

\* the year value is not a number written in decimal digits
C11_BadYear(r) ==
    ~ \/ r.year.t = "str" /\ DecimalDigitsOnly(r.year.s)
      \/ r.year.t = "int" /\ r.year.n >= 0

\* the record with its unparseable values replaced by well-formed ones of the
\* same effect: a count of 0, no year
C11_WellFormed(r) ==
    [r EXCEPT !.citations = IF C11_BadCitations(r) THEN PyInt(0) ELSE @,
              !.year      = IF C11_BadYear(r) THEN PyAbsent ELSE @]

\* what a caller reads of an aggregated list, the raw citations and year left out
C11_View(list) ==
    [e \in 1..Len(list) |->
        [key |-> list[e].key, first |-> list[e].first,
         title |-> list[e].p.title,
         source_count |-> list[e].p.source_count,
         citations_int |-> list[e].p.citations_int,
         recency_boosted |-> list[e].p.recency_boosted,
         relevance_score |-> list[e].p.relevance_score]]

C11_TitleFault == \E i \in Inputs : combined_results[i].title.t # "str"

\* C11: no unparseable citations or year value makes deduplicate_and_score raise (a
\* call raises only over a title that is no str); the record is still merged, adds 0
\* to citations_int, is not recency-eligible, and the whole result is the one of the
\* same input with the unparseable values replaced by well-formed ones; lists of 0
\* and 1 records return normally.
C11_GracefulDegradation ==
    /\ pc = "raised" => C11_TitleFault
    /\ Done =>
          /\ \A i \in Inputs :
                C11_BadCitations(combined_results[i]) =>
                    \E e \in Outputs :
                        /\ final_list[e].key = record_keys[i]
                        /\ RecordsOf(record_keys[i]) = {i} => final_list[e].p.citations_int = 0
          /\ \A e \in Outputs :
                C11_BadYear(combined_results[final_list[e].first]) =>
                    /\ ~final_list[e].p.recency_boosted
                    /\ C5_Plain(final_list[e].p)
          /\ LET clean == [i \in Inputs |-> C11_WellFormed(combined_results[i])]
                 out   == deduplicate_and_score(clean)
             IN ~out.raised /\ C11_View(out.result) = C11_View(final_list)
          /\ Len(combined_results) <= 1 => Len(final_list) = Len(combined_results)

\* int() raised on a count and on a year that isdigit() had let through, beside
\* records of the same and of other identities, and the call returned
C11_Witness ==
    /\ Done
    /\ config.recency_boost
    /\ \E i, j \in Inputs :
          /\ i # j
          /\ record_keys[i] = record_keys[j]
          /\ combined_results[i].citations.t = "str"
          /\ str_isdigit(combined_results[i].citations.s)
          /\ int_raises(combined_results[i].citations.s)
          /\ \E e \in Outputs :
                /\ final_list[e].first = i
                /\ int_raises(combined_results[i].year.s)
                /\ final_list[e].p.citations_int > 0
    /\ Len(final_list) >= 2

\* C20: for every list L of records with a title, deduplicate_and_score(L + L) has
\* the identities of deduplicate_and_score(L), each with twice the source_count and
\* the same citations_int.
C20_Doubling ==
    (Done /\ ~C11_TitleFault) =>
        LET out == deduplicate_and_score(combined_results \o combined_results)
        IN /\ ~out.raised
           /\ Len(out.result) = Len(final_list)
           /\ \A e \in Outputs :
                 \E d \in 1..Len(out.result) :
                     /\ out.result[d].key = final_list[e].key
                     /\ out.result[d].p.source_count = 2 * final_list[e].p.source_count
                     /\ out.result[d].p.citations_int = final_list[e].p.citations_int

\* a list of several identities, one of them reported more than once with
\* different counts
C20_Witness ==
    /\ Done
    /\ ~C11_TitleFault
    /\ Len(final_list) >= 2
    /\ \E e \in Outputs :
          /\ final_list[e].p.source_count >= 2
          /\ \E i, j \in RecordsOf(final_list[e].key) :
                C3_Coerce(combined_results[i].citations) <
                    C3_Coerce(combined_results[j].citations)
    /\ LET out == deduplicate_and_score(combined_results \o combined_results)
       IN \E d \in 1..Len(out.result) : out.result[d].p.source_count >= 4

\* C21 as stated: once a duplicate was folded into an entry, the entry's citations
\* is the int its citations_int holds
C21_Original ==
    Done =>
        \A e \in Outputs :
            final_list[e].p.source_count >= 2 =>
                final_list[e].p.citations = PyInt(final_list[e].p.citations_int)

\* C26: a record keyed by an informative DOI and a record without an informative
\* DOI never collapse into one entry.
C26_Original ==
    Done =>
        \A i, j \in Inputs :
            (C1_HasDoi(combined_results[i]) /\ ~C1_HasDoi(combined_results[j]))
                => ~Collapsed(i, j)

\* C26, amended: a record keyed by an informative DOI and a record without one
\* collapse exactly when the DOI, lowercased and trimmed, is the other record's
\* normalised title; a DOI that holds a character outside [a-z0-9] never
\* collapses with a record keyed by its title, whatever the titles.
C26_KeySpaces ==
    Done =>
        \A i, j \in Inputs :
            LET a == combined_results[i]
                b == combined_results[j]
            IN (C1_HasDoi(a) /\ ~C1_HasDoi(b)) =>
                   /\ Collapsed(i, j) <=> C1_NormDoi(a) = C1_NormTitle(b)
                   /\ (\E c \in 1..Len(C1_NormDoi(a)) : ~IsAlnumChar(C1_NormDoi(a)[c]))
                          => ~Collapsed(i, j)

\* the same paper with and without its DOI gave two entries, each with its own
\* source_count
C26_Witness ==
    /\ Done
    /\ Len(final_list) = 2
    /\ \A e \in Outputs : final_list[e].p.source_count = 1
    /\ \E i, j \in Inputs :
          LET a == combined_results[i]
              b == combined_results[j]
          IN /\ C1_HasDoi(a) /\ ~C1_HasDoi(b)
             /\ C1_NormTitle(a) = C1_NormTitle(b)
             /\ ~Collapsed(i, j)

\* the identity of an input record: its DOI, lowercased and trimmed, when that is
\* informative, else its normalised title
C27_Identity(r) == IF C1_HasDoi(r) THEN C1_NormDoi(r) ELSE C1_NormTitle(r)

RECURSIVE C27_Sum(_, _)
\* the sum of source_count over the first n entries of a list
C27_Sum(list, n) == IF n = 0 THEN 0 ELSE C27_Sum(list, n - 1) + list[n].p.source_count

\* C27: when deduplicate_and_score returns, it returns as many entries as the
\* input holds distinct identities, every source_count is at least 1, and the
\* source_counts add up to the number of input records.
C27_Conservation ==
    Done =>
        /\ Len(final_list) = Cardinality({C27_Identity(combined_results[i]) : i \in Inputs})
        /\ \A e \in Outputs : final_list[e].p.source_count >= 1
        /\ C27_Sum(final_list, Len(final_list)) = Len(combined_results)

\* several identities, some of them reported more than once, out of an input of
\* MaxLen records or more
C27_Witness ==
    /\ Done
    /\ Len(combined_results) >= MaxLen
    /\ Len(final_list) >= 2
    /\ Len(final_list) < Len(combined_results)
    /\ \E e, d \in Outputs : final_list[e].p.source_count > final_list[d].p.source_count

\* C28: a fold changes nothing of the entry but source_count, citations_int and
\* citations: every returned entry has the title, the doi and the year of the
\* first record of its identity, and the recency test is made on that year.
C28_FirstSeenKept ==
    Done =>
        /\ \A n \in Inputs :
              \A st \in {merge_loop(combined_results, n - 1)} :
                  \A after \in {merge_record(st, combined_results[n], n).unique_papers} :
                      LET before  == st.unique_papers
                          rest(p) == [p EXCEPT !.source_count = 0, !.citations_int = 0,
                                               !.citations = PyNone]
                      IN \A pos \in 1..Len(before) :
                             /\ after[pos].key = before[pos].key
                             /\ rest(after[pos].p) = rest(before[pos].p)
        /\ \A e \in Outputs :
              LET i     == CHOOSE i \in RecordsOf(final_list[e].key) :
                               \A j \in RecordsOf(final_list[e].key) : i <= j
                  first == combined_results[i]
              IN /\ final_list[e].p.title = first.title
                 /\ final_list[e].p.doi = first.doi
                 /\ final_list[e].p.year = first.year
                 /\ final_list[e].p.recency_boosted <=> C5_Eligible(first)

\* an entry into which a record of another title and another year was folded, the
\* recency test differing between the two years
C28_Witness ==
    /\ Done
    /\ \E e \in Outputs :
          \E i, j \in RecordsOf(final_list[e].key) :
              /\ i < j
              /\ \A k \in RecordsOf(final_list[e].key) : i <= k
              /\ combined_results[i].title # combined_results[j].title
              /\ combined_results[i].year # combined_results[j].year
              /\ C5_Eligible(combined_results[i]) # C5_Eligible(combined_results[j])
              /\ final_list[e].p.year = combined_results[i].year

----------------------------------------------------------------------------
(* Properties of run_search, checked under Spec *)

\* the engines whose adapter returned a non-empty list
Succeeded == {e \in EngineSet : tasks[e] = "returned" /\ Len(returned[e]) > 0}

\* the engines whose adapter raised or returned nothing
Failed ==
    {e \in EngineSet : tasks[e] = "raised" \/ (tasks[e] = "returned" /\ Len(returned[e]) = 0)}

RECURSIVE Concat(_)
\* the lists returned by the engines of order, one after the other
Concat(order) ==
    IF Len(order) = 0 THEN <<>>
    ELSE returned[order[1]] \o Concat(SubSeq(order, 2, Len(order)))

\* the orders in which the engines of S can complete
Orders(S) ==
    {o \in [1..Cardinality(S) -> S] : \A i, j \in DOMAIN o : i # j => o[i] # o[j]}

\* the engines that returned a record of identity k
EnginesReporting(k) ==
    {e \in EngineSet :
        tasks[e] = "returned" /\ \E i \in 1..Len(returned[e]) : key(returned[e][i]) = k}

\* C2 as stated: after run_search, source_count of an aggregated paper is the number
\* of distinct adapters that returned a record of its identity.
C2_Original ==
    Done =>
        \A e \in Outputs :
            final_list[e].p.source_count = Cardinality(EnginesReporting(final_list[e].key))

\* what C7 compares of an aggregated list
AggregateView(list) ==
    {[key             |-> list[i].key,
      source_count    |-> list[i].p.source_count,
      citations_int   |-> list[i].p.citations_int,
      recency_boosted |-> list[i].p.recency_boosted,
      relevance_score |-> list[i].p.relevance_score] : i \in 1..Len(list)}

\* C7 as stated: whatever the order in which the adapters complete, the aggregated
\* papers have the same identities, source_count, citations_int, recency_boosted and
\* relevance_score.
C7_Original ==
    Done =>
        \A o \in Orders(Succeeded) :
            AggregateView(deduplicate_and_score(Concat(o)).result) = AggregateView(final_list)

\* C8: whatever subset of the adapters raises or returns nothing, in any completion
\* order, the other results are all collected: the list handed to
\* deduplicate_and_score is made of exactly the non-empty lists returned, each such
\* engine is in successful_engines, each raising or empty engine is in failed_engines,
\* and run_search goes on to return.
C8_FailureIsolation ==
    /\ Done =>
          /\ Range(successful_engines) = Succeeded
          /\ Len(successful_engines) = Cardinality(Succeeded)
          /\ combined_results = Concat(successful_engines)
          /\ \A e \in Failed : \E i \in 1..Len(failed_engines) : failed_engines[i].engine = e
          /\ \A e \in Succeeded :
                \A i \in 1..Len(failed_engines) : failed_engines[i].engine # e
          /\ total_api_calls = Cardinality(Succeeded)
    /\ (pc = "collect" /\ executor_idle)
          => (merge_may_start \/ \E e \in pending : tasks[e] \in {"returned", "raised"})

\* one adapter raised, one returned nothing, one returned records, and the two
\* failures were collected against the order of submission
C8_Witness ==
    /\ Done
    /\ \E e \in EngineSet : tasks[e] = "raised"
    /\ \E e \in EngineSet : tasks[e] = "returned" /\ Len(returned[e]) = 0
    /\ Succeeded # {}
    /\ Len(failed_engines) = 2
    /\ \E i, j \in 1..Len(Engines) :
          i < j /\ failed_engines[1].engine = Engines[j] /\ failed_engines[2].engine = Engines[i]

\* C9: deduplicate_and_score starts only after every submitted task has returned or
\* raised and been collected, and only steps of the orchestrating thread (which leave
\* the futures as they are) write the combined list or the result of the merge.
C9_MergeAfterFetch ==
    [][/\ (final_list' # final_list \/ record_keys' # record_keys \/ pc' = "done")
             => (executor_idle /\ as_completed_exhausted /\ tasks' = tasks)
       /\ combined_results' # combined_results
             => (pc = "collect" /\ tasks' = tasks /\ returned' = returned)]_vars

\* the merge has run on the results of two adapters that ran concurrently
C9_Witness ==
    /\ Done
    /\ Cardinality(Succeeded) >= 2
    /\ Len(final_list) > 0

----------------------------------------------------------------------------
(* Properties of analyze_research_gaps, checked under SpecGap *)

\* analyze_research_gaps has returned its report
Reported == pc = "reported"

\* the papers the loop of line 440 went through so far
MinedPapers == SubSeq(papers_with_text(results), 1, mined)

\* the sentences of a paper as lines 443 and 453 cut them, in order
C_Sentences(paper) ==
    LET pieces == split_sentences(paper_text(paper))
    IN [i \in 1..Len(pieces) |-> str_strip(pieces[i])]

\* the places of the active dictionary whose pattern a sentence of the corpus matches
C_Matching ==
    [sentence \in CorpusSentences, q \in QuerySet |->
        {k \in 1..Len(all_patterns(q)) : pattern_search(all_patterns(q)[k].pattern, sentence)}]

\* the number of words and of characters and the analyzer's confidence of every
\* sentence of the corpus
C_Measure ==
    [sentence \in CorpusSentences |->
        [words      |-> Len(str_split(sentence)),
         characters |-> Len(sentence),
         confidence |-> analyze_sentence(sentence).confidence]]

\* the entries one pass of the loop of line 440 appends to found_gaps
C_Appended == SubSeq(found_gaps', Len(found_gaps) + 1, Len(found_gaps'))

\* a paper as the claim takes it for well-typed: the texts are str or missing, the
\* citations an int or a str, the year a str or an int
C12_WellTyped(p) ==
    /\ p.abstract.t \in {"str", "none", "absent"}
    /\ p.tldr.t \in {"str", "none", "absent"}
    /\ p.keywords.t \in {"str", "none", "absent"}
    /\ p.citations.t \in {"int", "str"}
    /\ p.year.t \in {"int", "str"}

\* C12 (as stated): analyze_research_gaps returns a report and never leaves with an
\* exception when every paper is well-typed, a citations field of 'N/A' and a year
\* that is an int included.
C12_Original ==
    (\A i \in 1..Len(results) : C12_WellTyped(results[i])) => pc # "gap_raised"

\* C13: one pass of the loop over the sentences of a paper appends one entry for
\* every sentence that is length-eligible, matches a pattern of the active dictionary
\* and is not below min_confidence, in the order of the sentences, and no other entry;
\* the entry carries the category of the first matching pattern in the order of the
\* dictionary (General, Technical/AI, Clinical, Emerging).
C13_OneGapPerSentence ==
    [][mined' = mined + 1 =>
         LET paper    == papers_with_text(results)[mined + 1]
             emitting == SelectSeq(C_Sentences(paper),
                                   LAMBDA s : /\ C_Measure[s].words >= 5
                                              /\ C_Measure[s].characters <= 500
                                              /\ C_Matching[s, query] # {}
                                              /\ C_Measure[s].confidence >= min_confidence)
         IN /\ Len(C_Appended) = Len(emitting)
            /\ \A i \in 1..Len(emitting) :
                  LET first == CHOOSE k \in C_Matching[emitting[i], query] :
                                   \A l \in C_Matching[emitting[i], query] : k <= l
                  IN /\ C_Appended[i].gap_statement = emitting[i]
                     /\ C_Appended[i].category = all_patterns(query)[first].category]_vars

\* a sentence that matches a general pattern (Evidence Gap) and two later ones has
\* one entry, and so has a sentence that matches a Technical/AI pattern and an
\* Emerging one
C13_Witness ==
    /\ Reported
    /\ results = <<Papers.P_Future, Papers.P_Packs>>
    /\ query = Queries.Q_Both
    /\ Cardinality(C_Matching[Sentence.S_Two, query]) = 3
    /\ Cardinality(C_Matching[Sentence.S_Cost, query]) = 2
    /\ [i \in 1..Len(found_gaps) |-> <<found_gaps[i].gap_statement, found_gaps[i].category>>]
       = << <<Sentence.S_Future, "Future Research Needed">>, <<Sentence.S_Two, "Evidence Gap">>,
            <<Sentence.S_Cost, "Computational Cost">>, <<Sentence.S_LongTerm, "Longitudinal Data Gap">> >>

\* C14: the clusters cluster_similar_gaps builds at threshold 0.65 are those of the
\* scan in emission order: a statement is a seed when no earlier seed is similar to
\* it by 0.65 or more, and every other statement belongs to the first seed that is;
\* only the similarity to the seed counts, 0.65 itself joins.  The report shows the
\* clusters as the cluster_members of the representatives, the seed first.
C14_SeedClusters ==
    Reported =>
        LET n      == Len(found_gaps)
            sim(i, j) == semantic_similarity[found_gaps[i].gap_statement,
                                             found_gaps[j].gap_statement]
            IsSeed[j \in 1..n] == \A s \in 1..(j - 1) : IsSeed[s] => sim(s, j) < 650
            seeds  == {j \in 1..n : IsSeed[j]}
            SeedOf(j) == CHOOSE s \in seeds :
                            /\ s <= j
                            /\ (s = j \/ sim(s, j) >= 650)
                            /\ \A t \in seeds : (t < s) => sim(t, j) < 650
            Members(s) == SortedSeq({j \in s..n : SeedOf(j) = s})
        IN /\ Len(report.gap_list) = Cardinality(seeds)
           /\ {report.gap_list[i].cluster_members : i \in 1..Len(report.gap_list)}
              = {[k \in 1..Len(Members(s)) |->
                     preview(found_gaps[Members(s)[k]].gap_statement)] : s \in seeds}

\* K_Equal is similar to the seed K_Seed by exactly 0.65 and joins it, K_Below by
\* 0.649 and stays out, and K_Chain is similar to the member K_Equal (0.669) but
\* not to the seed (0.46) and stays out
C14_Witness ==
    /\ Reported
    /\ [i \in 1..Len(found_gaps) |-> found_gaps[i].gap_statement]
       = <<Sentence.K_Seed, Sentence.K_Equal, Sentence.K_Chain, Sentence.K_Below>>
    /\ semantic_similarity[Sentence.K_Seed, Sentence.K_Equal] = 650
    /\ semantic_similarity[Sentence.K_Seed, Sentence.K_Below] = 649
    /\ semantic_similarity[Sentence.K_Equal, Sentence.K_Chain] = 669
    /\ semantic_similarity[Sentence.K_Seed, Sentence.K_Chain] = 460
    /\ {report.gap_list[i].cluster_members : i \in 1..Len(report.gap_list)}
       = {<<preview(Sentence.K_Seed), preview(Sentence.K_Equal)>>, <<preview(Sentence.K_Chain)>>, <<preview(Sentence.K_Below)>>}

\* the entries of found_gaps a representative stands for: those its cluster_members
\* preview
C15_Members(r) ==
    {j \in 1..Len(found_gaps) :
        preview(found_gaps[j].gap_statement) \in Range(r.cluster_members)}

\* citations + confidence * 100 of an entry as a number, the confidence being
\* counted in hundredths
C15_Value(gap) == int_call(gap.citations).n + gap.analysis.confidence

\* C15 (as stated): every representative of the report is the member of its cluster
\* whose citations + confidence * 100 is the greatest, the earliest of them on a
\* tie, and its cluster_size is the number of members of the cluster.
C15_Original ==
    Reported =>
        \A i \in 1..Len(report.gap_list) :
            LET r       == report.gap_list[i]
                members == C15_Members(r)
                best    == CHOOSE j \in members :
                               \A l \in members :
                                  /\ C15_Value(found_gaps[l]) <= C15_Value(found_gaps[j])
                                  /\ (l < j) =>
                                        C15_Value(found_gaps[l]) < C15_Value(found_gaps[j])
            IN /\ [r EXCEPT !.cluster_size = 0, !.cluster_members = <<>>] = found_gaps[best]
               /\ r.cluster_size = Cardinality(members)

\* C15 (amended): every representative of the report is the member of its cluster
\* whose citations + confidence * 100 is the greatest as the floats come out, the
\* earliest of them when the floats tie, and its cluster_size is the number of
\* members of the cluster.  As a number its value is the greatest too, but among
\* members of one value a later one with confidence 0.55 goes first.
C15_Representative ==
    Reported =>
        \A i \in 1..Len(report.gap_list) :
            LET r       == report.gap_list[i]
                members == C15_Members(r)
                sum(j)  == float_add(int_call(found_gaps[j].citations).n,
                                     times_hundred(found_gaps[j].analysis.confidence))
                best    == CHOOSE j \in members :
                               \A l \in members :
                                  /\ ~float_less(sum(j), sum(l))
                                  /\ (l < j) => float_less(sum(l), sum(j))
            IN /\ [r EXCEPT !.cluster_size = 0, !.cluster_members = <<>>] = found_gaps[best]
               /\ r.cluster_size = Cardinality(members)
               /\ \A l \in members : C15_Value(found_gaps[l]) <= C15_Value(r)

\* a cluster of two members of the value 60, the earlier with 10 citations and
\* confidence 0.5, the later with 5 citations and confidence 0.55: the later one
\* stands for it
C15_Witness ==
    /\ Reported
    /\ [i \in 1..Len(found_gaps) |->
           <<found_gaps[i].gap_statement, C15_Value(found_gaps[i])>>]
       = << <<Sentence.R_Plain, 60>>, <<Sentence.R_Next, 60>> >>
    /\ Len(report.gap_list) = 1
    /\ report.gap_list[1].gap_statement = Sentence.R_Next
    /\ report.gap_list[1].cluster_size = 2

\* C16 (as stated): every gap statement comes from a sentence of 5 to 100 words and
\* of at most 500 characters.
C16_Original ==
    \A i \in 1..Len(found_gaps) :
        LET size == C_Measure[found_gaps[i].gap_statement]
        IN /\ size.words >= 5
           /\ size.words <= 100
           /\ size.characters <= 500

\* C17: with min_confidence = 1.1 no pass of the loop appends an entry, and with
\* min_confidence = 0.0 a pass appends one entry for every sentence of the paper
\* that is length-eligible and matches a pattern of the active dictionary, whatever
\* the analyzer's confidence for it.
C17_Extremes ==
    [][mined' = mined + 1 =>
         LET paper    == papers_with_text(results)[mined + 1]
             matching == SelectSeq(C_Sentences(paper),
                                   LAMBDA s : /\ C_Measure[s].words >= 5
                                              /\ C_Measure[s].characters <= 500
                                              /\ C_Matching[s, query] # {})
         IN /\ (min_confidence = 110) => (C_Appended = <<>>)
            /\ (min_confidence = 0) =>
                  ([i \in 1..Len(C_Appended) |-> C_Appended[i].gap_statement] = matching)]_vars

\* a report under min_confidence = 1.1 with no gap although a mined paper has an
\* eligible sentence that matches a pattern and has the confidence 0.7
C17_Witness ==
    /\ Reported
    /\ min_confidence = 110
    /\ found_gaps = <<>>
    /\ report.total_gaps_found = 0
    /\ \E k \in 1..Len(MinedPapers) :
          \E s \in Range(C_Sentences(MinedPapers[k])) :
             /\ C_Measure[s].words >= 5
             /\ C_Measure[s].characters <= 500
             /\ C_Matching[s, query] # {}
             /\ C_Measure[s].confidence = 70

\* C19: when no paper has a non-empty abstract or tldr, the empty list included,
\* analyze_research_gaps returns its report, with every count at 0 and every list
\* and dictionary empty, whatever keywords and years the papers carry.
C19_NothingToMine ==
    (\A i \in 1..Len(results) :
        ~py_truthy(results[i].abstract) /\ ~py_truthy(results[i].tldr))
    => /\ pc # "gap_raised"
       /\ Reported =>
             /\ report.total_gaps_found = 0
             /\ report.unique_gaps_after_clustering = 0
             /\ report.papers_analyzed = 0
             /\ report.high_impact_gaps = 0
             /\ report.high_confidence_gaps = 0
             /\ report.gap_list = <<>>
             /\ report.top_keywords = <<>>
             /\ report.gap_categories = <<>>
             /\ report.temporal_distribution = <<>>
             /\ report.recurring_gaps = <<>>
             /\ report.authors_with_most_gaps = <<>>

\* the report over two papers without text that carry keywords and a year of digits
C19_Witness ==
    /\ Reported
    /\ Len(results) = 2
    /\ \A i \in 1..Len(results) :
          /\ ~py_truthy(results[i].abstract) /\ ~py_truthy(results[i].tldr)
          /\ py_truthy(results[i].keywords)
          /\ str_isdigit(py_str(results[i].year))
    /\ report.papers_analyzed = 0
    /\ report.top_keywords = <<>>

RECURSIVE C29_Sum(_, _)
\* the sum of cluster_size over the first n entries of a gap list
C29_Sum(gap_list, n) ==
    IF n = 0 THEN 0 ELSE C29_Sum(gap_list, n - 1) + gap_list[n].cluster_size

\* C29: the clusters of cluster_similar_gaps partition the emitted gaps, every gap
\* in exactly one cluster, and each cluster gives one representative: in the
\* report unique_gaps_after_clustering <= total_gaps_found, and the cluster_size
\* of the entries of gap_list add up to total_gaps_found.
C29_Partition ==
    Reported =>
        LET clusters == cluster_similar_gaps(found_gaps, 650).clusters
        IN /\ \A j \in 1..Len(found_gaps) :
                 Cardinality({<<c, k>> \in (1..Len(clusters)) \X (1..Len(found_gaps)) :
                                 k <= Len(clusters[c]) /\ clusters[c][k] = j}) = 1
           /\ Len(report.gap_list) = Len(clusters)
           /\ report.total_gaps_found = Len(found_gaps)
           /\ report.unique_gaps_after_clustering = Len(report.gap_list)
           /\ report.unique_gaps_after_clustering <= report.total_gaps_found
           /\ \A e \in 1..Len(report.gap_list) :
                 /\ report.gap_list[e].cluster_size >= 1
                 /\ report.gap_list[e].cluster_size = Len(report.gap_list[e].cluster_members)
           /\ C29_Sum(report.gap_list, Len(report.gap_list)) = report.total_gaps_found

\* a report of fewer representatives than gaps, with a cluster of several members
\* beside a cluster of one
C29_Witness ==
    /\ Reported
    /\ report.total_gaps_found >= 3
    /\ report.unique_gaps_after_clustering >= 2
    /\ report.unique_gaps_after_clustering < report.total_gaps_found
    /\ \E e, d \in 1..Len(report.gap_list) :
          report.gap_list[e].cluster_size = 1 /\ report.gap_list[d].cluster_size >= 2

\* C30: every sentence of at least 5 words has a confidence from 0.4 to 1.0, so
\* under the default min_confidence = 0.3 a pass of the loop appends an entry for
\* every length-eligible sentence that matches a pattern: the entries it appends
\* under min_confidence = 0.0.
C30_DefaultKeepsAll ==
    [][mined' = mined + 1 =>
         LET paper    == papers_with_text(results)[mined + 1]
             tested   == SelectSeq(C_Sentences(paper), LAMBDA s : C_Measure[s].words >= 5)
             matching == SelectSeq(tested,
                                   LAMBDA s : /\ C_Measure[s].characters <= 500
                                              /\ C_Matching[s, query] # {})
         IN /\ \A i \in 1..Len(tested) :
                  /\ C_Measure[tested[i]].confidence >= 40
                  /\ C_Measure[tested[i]].confidence <= 100
            /\ (min_confidence = 30) =>
                  /\ [i \in 1..Len(C_Appended) |-> C_Appended[i].gap_statement] = matching
                  /\ C_Appended = mined_paper[paper, query, 0].gaps]_vars

\* a run under the default min_confidence that has emitted an entry of confidence
\* 0.4, the lowest there is, beside one of a higher confidence
C30_Witness ==
    /\ mined > 0
    /\ min_confidence = 30
    /\ \E i \in 1..Len(found_gaps) : found_gaps[i].analysis.confidence = 40
    /\ \E i \in 1..Len(found_gaps) : found_gaps[i].analysis.confidence > 40

----------------------------------------------------------------------------
(* Properties of _calculate_confidence, checked under SpecConfidence *)

\* C18: for every combination of the features the confidence is 0.5, plus 0.2 when
\* negation and uncertainty both hold, plus 0.15 when future-oriented, minus 0.1
\* when sentence_length is below 8, plus 0.1 when a recommendation, plus 0.1 when a
\* limitation, clamped to [0, 1]; counted in hundredths it needs no rounding, and
\* it lies between 0 and 1.
C18_Confidence ==
    (pc = "analyzed") =>
        LET score == 50 + (IF analysis.has_negation /\ analysis.has_uncertainty
                           THEN 20 ELSE 0)
                        + (IF analysis.is_future_oriented THEN 15 ELSE 0)
                        - (IF analysis.sentence_length < 8 THEN 10 ELSE 0)
                        + (IF analysis.is_recommendation THEN 10 ELSE 0)
                        + (IF analysis.is_limitation THEN 10 ELSE 0)
        IN /\ analysis.confidence = (IF score > 100 THEN 100 ELSE IF score < 0 THEN 0
                                     ELSE score)
           /\ analysis.confidence >= 0
           /\ analysis.confidence <= 100

\* every feature holds in a sentence of 8 words: the sum 1.05 is clamped to 1.0
C18_Witness ==
    /\ pc = "analyzed"
    /\ analysis.has_negation /\ analysis.has_uncertainty /\ analysis.is_future_oriented
    /\ analysis.is_recommendation /\ analysis.is_limitation
    /\ analysis.sentence_length = 8
    /\ analysis.confidence = 100

----------------------------------------------------------------------------
(* Properties of deduplicate_and_score called again, checked under SpecRemerge *)

\* C22 as stated: after every call, the first or a later one on the papers of the
\* earlier call, every returned paper's recency_boosted is TRUE exactly when the
\* call multiplied its relevance_score by recency_multiplier
C22_Original ==
    pc \in {"done", "remerged"} =>
        \A e \in Outputs :
            final_list[e].p.recency_boosted <=> C5_Eligible(final_list[e].p)

----------------------------------------------------------------------------
(* Properties of identify_priority_gaps, checked under SpecPriority *)

\* the rubric as the claim states it, the confidence in hundredths
C23_Rubric(g) ==
    LET citations == int_call(g.citations).n
        year_n    == IF DecimalDigitsOnly(g.year.s) THEN ParseDigits(g.year.s) ELSE 0
    IN (IF citations >= 100 THEN 3 ELSE IF citations >= 50 THEN 2 ELSE 0)
       + (IF g.analysis.confidence >= 80 THEN 2 ELSE 0)
       + (IF year_n >= 2022 THEN 2 ELSE 0)
       + (IF g.cluster_size > 1 THEN g.cluster_size ELSE 0)
       + (IF g.analysis.is_limitation THEN 1 ELSE 0)

\* the place in the report's gap_list of the k-th returned entry (0: none)
C23_Place(k) ==
    IF \E i \in 1..Len(report.gap_list) : report.gap_list[i] = priority_gaps[k].gap
    THEN CHOOSE i \in 1..Len(report.gap_list) : report.gap_list[i] = priority_gaps[k].gap
    ELSE 0

\* C23: identify_priority_gaps(report, top_n) returns at most top_n entries of the
\* report's gap_list, each once, with the sum of the rubric (3 for citations >= 100,
\* else 2 for citations >= 50; 2 for confidence >= 0.8; 2 for year >= 2022;
\* cluster_size when it exceeds 1; 1 for a limitation) as priority_score, in
\* non-increasing priority_score and equal scores in gap_list order; the composite
\* score that ordered gap_list has no part in the score.
C23_PriorityGaps ==
    pc = "prioritised" =>
        /\ Len(priority_gaps) <= top_n
        /\ \A k \in 1..Len(priority_gaps) :
              /\ C23_Place(k) # 0
              /\ priority_gaps[k].priority_score = C23_Rubric(priority_gaps[k].gap)
        /\ \A k, l \in 1..Len(priority_gaps) :
              k < l =>
                  /\ priority_gaps[k].priority_score >= priority_gaps[l].priority_score
                  /\ C23_Place(k) # C23_Place(l)
                  /\ priority_gaps[k].priority_score = priority_gaps[l].priority_score
                        => C23_Place(k) < C23_Place(l)

\* a call that cuts the list, returns two gaps of equal score and leaves out the
\* gap the composite score put first
C23_Witness ==
    /\ pc = "prioritised"
    /\ 0 < top_n
    /\ top_n < Len(report.gap_list)
    /\ Len(priority_gaps) = top_n
    /\ \E k, l \in 1..Len(priority_gaps) :
          /\ k < l
          /\ priority_gaps[k].priority_score = priority_gaps[l].priority_score
    /\ C23_Place(1) > 1

----------------------------------------------------------------------------
(* Properties of execute_research_pipeline, checked under SpecPipeline *)

\* a step of the run in which web research comes back with fewer than 3 sources or
\* the stage that was called raises: control goes to the except clause
C24_Fails ==
    /\ pc = "stage"
    /\ Len(stage_calls') = Len(stage_calls) + 1
    /\ \/ pc' = "except"
       \/ Len(stage_calls') = 2 /\ session_state'.sources < 3

\* what the claim asks of one step
C24_Step ==
    /\ C24_Fails => pc' = "except"
    /\ pc = "except" => (pc' = "finally" /\ session_state'.step = "error")
    /\ pc \in {"except", "finally", "returned"} => stage_calls' = stage_calls
    /\ pc = "finally" => (pc' = "returned" /\ session_state'.step = session_state.step)
    /\ (session_state'.step = "complete" /\ session_state.step # "complete")
          => (stage_calls' = Stages /\ pc' = "finally" /\ session_state.sources >= 3)

\* C24: the stages are called in the order topic analysis, web research, draft,
\* critique, refinement; when web research yields fewer than 3 sources or a stage
\* raises, no later stage is called and the function returns with step = 'error';
\* step = 'complete' is set only after all five stages returned; is_processing is
\* False whenever the function has returned.
C24_Pipeline ==
    /\ [](/\ stage_calls = SubSeq(Stages, 1, Len(stage_calls))
          /\ pc = "returned" =>
                /\ ~session_state.is_processing
                /\ session_state.step \in {"error", "complete"}
                /\ session_state.step = "complete" => stage_calls = Stages
                /\ stage_calls # Stages => session_state.step = "error")
    /\ [][C24_Step]_vars

\* a run that has returned after web research found two sources
C24_Witness ==
    /\ pc = "returned"
    /\ session_state.sources = 2
    /\ stage_calls = <<"topic analysis", "web research">>
    /\ session_state.step = "error"
    /\ ~session_state.is_processing

----------------------------------------------------------------------------
(* Properties of format_authors_ieee, checked under SpecFormat *)

\* C25: format_authors_ieee gives 'Research Team' for the empty string, an
\* institutional name unchanged, and otherwise a shape fixed by the number N of
\* comma/'and'-separated names, each name formatted: the name itself for N = 1,
\* 'A and B' for N = 2, 'A, B, ..., and Z' for N >= 3; an input containing
\* 'et al' may instead give '<formatted first author> et al.'.
C25_Original ==
    pc = "formatted" =>
        LET names == author_names(authors_str)
            shape == format_list([k \in 1..Len(names) |-> format_name(names[k])])
            et_al == <<" ","e","t"," ","a","l",".">>
        IN IF authors_str = <<>> THEN formatted = <<"R","e","s","e","a","r","c","h"," ","T","e","a","m">>
           ELSE IF is_institutional_name(authors_str) THEN formatted = authors_str
           ELSE IF has_et_al(authors_str)
           THEN \/ /\ Len(formatted) > Len(et_al)
                   /\ SubSeq(formatted, Len(formatted) - Len(et_al) + 1, Len(formatted)) = et_al
                \/ names # <<>> /\ formatted = shape
           ELSE names # <<>> => formatted = shape

====
